---- MODULE Spec2Model ----
(***************************************************************************)
(* State-machine models of the regional law scrapers.  Every script is a   *)
(* standalone program; each one gets its own group of variables, its own   *)
(* actions and its own specification.  While one script runs, the          *)
(* variables of the others stay at their "off" values.                     *)
(***************************************************************************)
EXTENDS Integers, Sequences, FiniteSets, TLC

(***************************************************************************)
(* Bounds of the model                                                     *)
(***************************************************************************)
\* Calabria: years 1..CalYears stand for START_YEAR..END_YEAR
CalYears == 1
\* Calabria: law numbers 1..CalMaxLaw are the ones the server may hold a PDF for
CalMaxLaw == 1

\* Calabria: the same for the scan of one year taken alone
CalScanLaws == 3
\* Calabria: MAX_WORKERS (8 in the source) scaled down
Cal_MAX_WORKERS == 2
\* Calabria: MAX_CONSECUTIVE_MISSES (10 in the source) scaled down
Cal_MAX_CONSECUTIVE_MISSES == 2
\* Calabria: how many times the script is started
CalMaxRuns == 2
\* Campania: law ids 1..CampLaws appear on the listing
CampLaws == 2
\* Campania: how many times the script is started
CampMaxRuns == 2

\* Campania: range(1, 150) ends at page 149; MAX_WORKERS, MAX_RETRIES; the
\* empty streak that ends the scan
Camp_LAST_PAGE == 149
Camp_MAX_WORKERS == 4
Camp_MAX_RETRIES == 3
Camp_EMPTY_LIMIT == 3

\* Lombardy: laws 1..LomLaws are listed; how many times the script is started;
\* the spreadsheet is written every Lom_SAVE_EVERY downloads (scaled from 5)
LomLaws == 2
LomMaxRuns == 2
Lom_SAVE_EVERY == 2

\* Lombardy: MAX_RETRIES
Lom_MAX_RETRIES == 3

\* Puglia: laws 1..PugLaws are listed on Pug_MAX_PAGES pages (scaled from
\* 107); how many times the script is started
PugLaws == 3
Pug_MAX_PAGES == 2
PugMaxRuns == 2

\* Puglia: MAX_WORKERS
Pug_MAX_WORKERS == 3

\* Emilia-Romagna: laws 1..EmLaws are listed on EmPages pages; how many times
\* the script is started; the spreadsheet is written when the number of rows
\* is a multiple of Em_SAVE_INTERVAL (scaled from 10)
EmLaws == 2
EmPages == 1
EmMaxRuns == 2
Em_SAVE_INTERVAL == 2

\* Emilia-Romagna: MAX_WORKERS
Em_MAX_WORKERS == 5

\* Basilicata: the listing has BasPages pages of BasRows rows, its pager shows
\* BasBlock page numbers at a time; the spreadsheet is written every
\* Bas_SAVE_FREQUENCY records (scaled from 5)
BasPages == 2
BasRows == 1
BasBlock == 1
Bas_SAVE_FREQUENCY == 2

\* Basilicata: retries = 3
Bas_RETRIES == 3

\* Basilicata: current_page is followed up to BasMaxCurrent
BasMaxCurrent == BasPages + 1

\* Friuli-Venezia Giulia: laws 1..FriLaws are listed; how many times the
\* script is started
FriLaws == 2
FriMaxRuns == 2

\* Lazio: laws 1..LazLaws are listed, one new law per listing page
LazLaws == 3

\* Lazio: TEST_MODE_LIMIT
Laz_TEST_MODE_LIMIT == 251

\* Tuscany, Liguria: law pages 1..ArtUrls, spread over ArtYears years; the
\* pages of laws 1..ArtUnknownLaws match neither pattern of extract_metadata
ArtUrls == 4

ArtYears == 1

ArtUnknownLaws == 2

\* Tuscany, Liguria: the spreadsheet is rewritten every 5 records (scaled)
Art_SAVE_EVERY == 2

\* Tuscany, Liguria: MAX_PARALLEL_TABS
Art_MAX_PARALLEL_TABS == 3

\* Valle d'Aosta: laws 1..AoLaws, spread over AoYears years
AoLaws == 4

AoYears == 1

\* Valle d'Aosta: an earlier run stored PDFs among laws 1..AoEarlierLaws
AoEarlierLaws == 1

\* Valle d'Aosta: MAX_WORKERS
Ao_MAX_WORKERS == 3

\* Piemonte, Puglia, Umbria: worker calls 1..WkCalls run in the pool at once
WkCalls == 2

\* Piemonte: MAX_RETRIES
Pie_MAX_RETRIES == 3

\* file names: law numbers, dates and url ids are 1..NmValues, 0 when the
\* page does not give one
NmValues == 2

\* file names: laws gone through by a script
NmLaws == 2

\* Marche: how many laws main puts on the download queue; how many distinct
\* target paths they have; the spreadsheet is written every Mar_SAVE_EVERY
\* rows (20 in the source, scaled down)
MarPuts == 2
MarPaths == 1
Mar_SAVE_EVERY == 2
\* Marche: WORKERS
Mar_WORKERS == 4

\* Campania state file: laws 1..CsLaws are submitted to the pool
CsLaws == 2

\* Molise: laws 1..MolLaws are listed; their filenames are 1..MolNames; how
\* many times the script is started
MolLaws == 2
MolNames == 2
MolMaxRuns == 2

\* Piemonte: MAX_RETRIES is Pie_MAX_RETRIES above; the size a saved PDF must
\* exceed (line 308); saved PDFs have a size within PieSizeSpread of it
Pie_VALID_SIZE == 2000
PieSizeSpread == 1

\* Veneto: the listing URLs are 1..VenUrls; years 1..VenYears are processed
VenUrls == 3
VenYears == 2



VARIABLES
  \* ---- Calabria/Calabria.py
  cal_pc,                  \* position of the main thread
  cal_runs,                \* number of starts so far
  cal_done_keys,           \* state["done_keys"] (in memory)
  cal_done_years,          \* state["done_years"] (in memory)
  cal_file_exists,         \* os.path.exists(PROGRESS_FILE)
  cal_file_keys,           \* "done_keys" of PROGRESS_FILE
  cal_file_years,          \* "done_years" of PROGRESS_FILE
  cal_year,                \* loop variable of the main loop
  cal_year_records,        \* year_records
  cal_law_num,             \* law_num
  cal_consecutive_misses,  \* consecutive_misses
  cal_futures,             \* futures: law number -> "running" | "found" | "miss"
  cal_excel,               \* rows of EXCEL_PATH (<<>>: the file does not exist)
  cal_requested,           \* history: keys of the requests.get of this year
  cal_loaded_years,        \* history: done_years as loaded when this run started
  cal_api,                 \* law numbers the API holds a PDF for
  \* ---- Campania/Campania.py
  camp_pc,                 \* position of main
  camp_runs,               \* number of starts so far
  camp_page,               \* page of the loop in collect_detail_links
  camp_empty_streak,       \* empty_streak
  camp_links,              \* links, duplicates dropped (law ids)
  camp_broke,              \* history: the page loop was left by the break
  camp_consec,             \* history: pages with consecutive numbers, ending at
                           \* the last requested one, each fetched and empty
  camp_done_ids,           \* state["done_ids"] (in memory)
  camp_file_exists,        \* os.path.exists(STATE_FILE)
  camp_file_ids,           \* "done_ids" of STATE_FILE
  camp_pdfs,               \* law ids with a file in PDF_DIR
  camp_rows,               \* rows (in memory)
  camp_excel,              \* rows of EXCEL_FILE (<<>>: the file does not exist)
  camp_task,               \* law id -> position of its process_law call
  camp_stats,              \* stats
  camp_fetched,            \* history: ids whose detail page was requested in this run
  camp_dl,                 \* history: ids whose PDF was requested in this run
  \* ---- Lombardia/Lombardy.py
  lom_pc,                  \* position of main
  lom_runs,                \* number of starts so far
  lom_idx,                 \* index of the law handed to process_law
  lom_attempt,             \* attempt of the retry loop
  lom_files,               \* law -> 0 (no file) or the run that wrote its PDF
  lom_results,             \* results
  lom_excel,               \* rows of EXCEL_FILE (<<>>: the file does not exist)
  lom_counters,            \* counters
  lom_dl,                  \* history: laws whose page was opened in this run
  \* ---- Puglia/Apulia.py
  pug_pc,                  \* position of run_main_process
  pug_runs,                \* number of starts so far
  pug_page_num,            \* page_num
  pug_task,                \* law -> position of its process_law_worker call
  pug_files,               \* law -> 0 (no file) or the run that wrote its PDF
  pug_all_data,            \* ALL_DATA
  pug_excel,               \* rows of the spreadsheet (<<>>: no file)
  pug_status,              \* law -> status returned by its worker in this run
  pug_printed,             \* history: laws printed to PDF in this run
  \* ---- emilia-romagna/Emilia-Romagna.py
  em_pc,                   \* position of main
  em_runs,                 \* number of starts so far
  em_page,                 \* the listing page current_url points to
  em_task,                 \* law -> position of its download_file call
  em_processed,            \* laws whose row has 'processed' set or was taken
  em_files,                \* law -> 0 (no file), r (written whole by run r) or
                           \* -r (left incomplete by run r)
  em_all_data,             \* all_data: <<law, Status>>
  em_excel,                \* rows of EXCEL_FILENAME (<<>>: no file)
  em_requested,            \* history: laws whose PDF was requested in this run
  \* ---- BASILICATA/Basilicata.py
  bas_pc,                  \* position of main
  bas_current_page,        \* current_page
  bas_shown,               \* the listing page the browser shows
  bas_n,                   \* len(data_indices)
  bas_i,                   \* row index of the row loop (from 1)
  bas_retries,             \* retries
  bas_data_list,           \* data_list: the rows read, as <<page, row>>
  bas_excel,               \* rows of EXCEL_FILENAME (<<>>: no file)
  bas_files,               \* laws <<page, row>> with a PDF in OUTPUT_FOLDER
  bas_read,                \* history: page the latest attempt read (0: none)
  \* ---- Friuli-Venezia/Friuli-Venezia Giulia.py
  fri_pc,                  \* position of run_scraper
  fri_runs,                \* number of starts so far
  fri_idx,                 \* index of the law handed to process_single_law
  fri_excel,               \* data rows of EXCEL_FILE (<<>>: no file)
  fri_given,               \* history: rows handed to save_metadata in this run
  \* ---- Lazio/Lazio.py
  laz_pc,                  \* position of main
  laz_page_num,            \* page_num
  laz_urls,                \* all_unique_urls
  laz_index,               \* index of the phase 2 loop (from 1)
  laz_data,                \* all_laws_data: <<law, kind of file>>
  laz_files,               \* files in OUTPUT_FOLDER: <<law, kind of file>>
  laz_excel,               \* rows of the spreadsheet (<<>>: no file)
  laz_critical,            \* phase in which the outer except branch was taken
  \* ---- Tuscany/Tuscany.py and Liguria/Liguria.py (same structure)
  art_script,              \* which of the two scripts runs
  art_pc,                  \* position of main
  art_year,                \* index of the year main is at (from 1)
  art_processed_urls,      \* processed_urls
  art_task,                \* law -> position of its process_article task
  art_sem,                 \* free slots of the semaphore
  art_pages,               \* laws whose page is open
  art_files,               \* file name -> law whose PDF it holds (0: no file)
  art_results,             \* results_data: <<law, file name>>
  art_excel,               \* rows of the spreadsheet (<<>>: no file)
  art_counters,            \* counters
  \* ---- Valle d'Aosta/Aosta.py
  ao_pc,                   \* position of main
  ao_year,                 \* index of the year main is at (from 1)
  ao_task,                 \* law -> position of its process_law task
  ao_sem,                  \* free slots of the semaphore of the year
  ao_pages,                \* laws whose page is open
  ao_files,                \* laws whose PDF is in OUTPUT_DIR
  ao_results,              \* all_results: <<law, Status>>
  ao_excel,                \* rows of the spreadsheet (<<>>: no file)
  ao_abrogated,            \* laws whose page was detected as abrogated in this run
  \* ---- Piemonte/Piemonte.py, Puglia/Apulia.py, Umbria/Umbria.py: workers
  wk_script,               \* which of the three scripts runs
  wk_pc,                   \* call -> position in the worker function
  wk_attempt,              \* call -> attempt (Piemonte)
  wk_driver,               \* call -> local variable driver (0: None)
  wk_drivers,              \* call -> the browsers it started, each live or quit
  wk_status,               \* call -> status
  \* ---- file names of Trentino-Alto Adige.py, Aosta.py, Lazio.py
  nm_script,               \* which of the three scripts runs
  nm_pc,                   \* "idle", "scraped" or "stored"
  nm_number,               \* law number found on the page (0: none)
  nm_date,                 \* date found on the page (0: none)
  nm_year,                 \* year found in the title (0: none)
  nm_id,                   \* id of the law in its URL
  nm_type,                 \* type of the PDF link (Trentino)
  nm_pdf_ok,               \* the PDF could be written (Lazio)
  nm_record,               \* <<Law Number, Date>> recorded for the law
  nm_filename,             \* parts of the stored file's name
  nm_count,                \* laws gone through
  \* ---- Marche/Marche.py
  mar_pc,                  \* position of main
  mar_started,             \* worker threads started by main so far
  mar_worker,              \* worker -> position in print_pdf_worker
  mar_law,                 \* worker -> the law it took from the queue (0: none)
  mar_reg,                 \* worker -> counter value read by its "+= 1"
  mar_queue,               \* download_queue (laws in order)
  mar_unfinished,          \* download_queue.unfinished_tasks
  mar_stop_signal,         \* stop_signal
  mar_path,                \* law -> its target path (0: not put yet)
  mar_put,                 \* laws put on the queue so far
  mar_all_rows,            \* all_rows (the "file" of each row)
  mar_excel,               \* rows of EXCEL_PATH
  mar_files,               \* paths that exist on disk
  mar_stats,               \* downloaded, failed, skipped
  mar_taken,               \* history: law -> how many times get() returned it
  mar_acked,               \* history: law -> task_done calls made for it
  mar_writers,             \* history: path -> the workers that wrote it in this run
  \* ---- Campania/Campania.py, process_law and save_state statement by statement
  cs_task,                 \* law id -> position of its process_law call
  cs_done_ids,             \* state["done_ids"] (the list in memory)
  cs_buf,                  \* law id -> what its open file object has buffered
  cs_file_exists,          \* os.path.exists(STATE_FILE)
  cs_file,                 \* content of STATE_FILE
  cs_pdfs,                 \* law ids whose PDF was downloaded in this run
  \* ---- Molise/Molise.py
  mol_pc,                  \* position of main
  mol_runs,                \* number of starts so far
  mol_filename,            \* law -> the filename built from its page
  mol_law_queue,           \* law_queue
  mol_idx,                 \* index of the current item of law_queue
  mol_df,                  \* df (the Filename of each row)
  mol_excel,               \* rows of EXCEL_FILE
  mol_files,               \* filenames that exist in OUTPUT_DIR
  mol_skipped,             \* stats["skipped"]
  mol_rendered,            \* history: filename -> page.pdf calls that saved it
  \* ---- Piemonte/Piemonte.py, process_law_worker for one law
  pie_pc,                  \* position in process_law_worker
  pie_attempt,             \* attempt
  pie_status,              \* status
  pie_res,                 \* res ("None" or "record")
  pie_driver,              \* driver: "None", or the state of the browser it holds
  pie_leaving,             \* the try block is being left by break or return
  pie_filesize,            \* os.path.getsize(filepath) (0: no file)
  pie_log,                 \* history: per attempt, abrogated detected and size saved
  \* ---- veneto/Veneto.py, the year loop and the page loop of main
  ven_pc,                  \* position of main
  ven_year,                \* index of the year of the for loop
  ven_driver_url,          \* driver.current_url
  ven_current_url,         \* current_url (0: not set in this year)
  ven_visited_urls,        \* visited_urls
  ven_processed,           \* history: the URLs whose laws were processed, this year
  ven_exit,                \* history: why the page loop of this year ended
  \* ---- emilia-romagna/Emilia-Romagna.py, lines 184-193 statement by statement
  em_stage,                \* "list": line 186 is next; "loop": in the loop of 188-193
  em_done_futures,         \* the rest of done_futures
  em_handling              \* the law whose row has 'processed' set and is not
                           \* appended yet (0: none)

calVars == <<cal_pc, cal_runs, cal_done_keys, cal_done_years,
             cal_file_exists, cal_file_keys, cal_file_years, cal_year,
             cal_year_records, cal_law_num, cal_consecutive_misses, cal_futures,
             cal_excel, cal_requested, cal_loaded_years, cal_api>>

campVars == <<camp_pc, camp_runs, camp_page, camp_empty_streak, camp_links,
              camp_broke, camp_consec, camp_done_ids, camp_file_exists,
              camp_file_ids, camp_pdfs, camp_rows, camp_excel, camp_task,
              camp_stats, camp_fetched, camp_dl>>

lomVars == <<lom_pc, lom_runs, lom_idx, lom_attempt, lom_files, lom_results,
             lom_excel, lom_counters, lom_dl>>

pugVars == <<pug_pc, pug_runs, pug_page_num, pug_task, pug_files,
             pug_all_data, pug_excel, pug_status, pug_printed>>

emVars == <<em_pc, em_runs, em_page, em_task, em_processed, em_files,
            em_all_data, em_excel, em_requested>>

basVars == <<bas_pc, bas_current_page, bas_shown, bas_n, bas_i, bas_retries,
             bas_data_list, bas_excel, bas_files, bas_read>>

friVars == <<fri_pc, fri_runs, fri_idx, fri_excel, fri_given>>

lazVars == <<laz_pc, laz_page_num, laz_urls, laz_index, laz_data, laz_files,
             laz_excel, laz_critical>>

artVars == <<art_script, art_pc, art_year, art_processed_urls, art_task,
             art_sem, art_pages, art_files, art_results, art_excel,
             art_counters>>

aoVars == <<ao_pc, ao_year, ao_task, ao_sem, ao_pages, ao_files, ao_results,
            ao_excel, ao_abrogated>>

wkVars == <<wk_script, wk_pc, wk_attempt, wk_driver, wk_drivers, wk_status>>

nmVars == <<nm_script, nm_pc, nm_number, nm_date, nm_year, nm_id, nm_type,
            nm_pdf_ok, nm_record, nm_filename, nm_count>>

marVars == <<mar_pc, mar_started, mar_worker, mar_law, mar_reg, mar_queue,
             mar_unfinished, mar_stop_signal, mar_path, mar_put, mar_all_rows,
             mar_excel, mar_files, mar_stats, mar_taken, mar_acked, mar_writers>>

csVars == <<cs_task, cs_done_ids, cs_buf, cs_file_exists, cs_file, cs_pdfs>>

molVars == <<mol_pc, mol_runs, mol_filename, mol_law_queue, mol_idx, mol_df,
             mol_excel, mol_files, mol_skipped, mol_rendered>>

pieVars == <<pie_pc, pie_attempt, pie_status, pie_res, pie_driver,
             pie_leaving, pie_filesize, pie_log>>

venVars == <<ven_pc, ven_year, ven_driver_url, ven_current_url,
             ven_visited_urls, ven_processed, ven_exit>>

ekVars == <<em_stage, em_done_futures, em_handling>>

vars == <<calVars, campVars, lomVars, pugVars, emVars, basVars, friVars, lazVars, artVars, aoVars, wkVars, nmVars, marVars, csVars, molVars, pieVars, venVars, ekVars>>

notCal == <<campVars, lomVars, pugVars, emVars, basVars, friVars, lazVars, artVars, aoVars, wkVars, nmVars, marVars, csVars, molVars, pieVars, venVars, ekVars>>
notCamp == <<calVars, lomVars, pugVars, emVars, basVars, friVars, lazVars, artVars, aoVars, wkVars, nmVars, marVars, csVars, molVars, pieVars, venVars, ekVars>>
notLom == <<calVars, campVars, pugVars, emVars, basVars, friVars, lazVars, artVars, aoVars, wkVars, nmVars, marVars, csVars, molVars, pieVars, venVars, ekVars>>
notPug == <<calVars, campVars, lomVars, emVars, basVars, friVars, lazVars, artVars, aoVars, wkVars, nmVars, marVars, csVars, molVars, pieVars, venVars, ekVars>>
notEm == <<calVars, campVars, lomVars, pugVars, basVars, friVars, lazVars, artVars, aoVars, wkVars, nmVars, marVars, csVars, molVars, pieVars, venVars, ekVars>>
notBas == <<calVars, campVars, lomVars, pugVars, emVars, friVars, lazVars, artVars, aoVars, wkVars, nmVars, marVars, csVars, molVars, pieVars, venVars, ekVars>>
notFri == <<calVars, campVars, lomVars, pugVars, emVars, basVars, lazVars, artVars, aoVars, wkVars, nmVars, marVars, csVars, molVars, pieVars, venVars, ekVars>>
notLaz == <<calVars, campVars, lomVars, pugVars, emVars, basVars, friVars, artVars, aoVars, wkVars, nmVars, marVars, csVars, molVars, pieVars, venVars, ekVars>>
notArt == <<calVars, campVars, lomVars, pugVars, emVars, basVars, friVars, lazVars, aoVars, wkVars, nmVars, marVars, csVars, molVars, pieVars, venVars, ekVars>>
notAo == <<calVars, campVars, lomVars, pugVars, emVars, basVars, friVars, lazVars, artVars, wkVars, nmVars, marVars, csVars, molVars, pieVars, venVars, ekVars>>
notWk == <<calVars, campVars, lomVars, pugVars, emVars, basVars, friVars, lazVars, artVars, aoVars, nmVars, marVars, csVars, molVars, pieVars, venVars, ekVars>>
notNm == <<calVars, campVars, lomVars, pugVars, emVars, basVars, friVars, lazVars, artVars, aoVars, wkVars, marVars, csVars, molVars, pieVars, venVars, ekVars>>
notMar == <<calVars, campVars, lomVars, pugVars, emVars, basVars, friVars, lazVars, artVars, aoVars, wkVars, nmVars, csVars, molVars, pieVars, venVars, ekVars>>
notCs == <<calVars, campVars, lomVars, pugVars, emVars, basVars, friVars, lazVars, artVars, aoVars, wkVars, nmVars, marVars, molVars, pieVars, venVars, ekVars>>
notMol == <<calVars, campVars, lomVars, pugVars, emVars, basVars, friVars, lazVars, artVars, aoVars, wkVars, nmVars, marVars, csVars, pieVars, venVars, ekVars>>
notPie == <<calVars, campVars, lomVars, pugVars, emVars, basVars, friVars, lazVars, artVars, aoVars, wkVars, nmVars, marVars, csVars, molVars, venVars, ekVars>>
notVen == <<calVars, campVars, lomVars, pugVars, emVars, basVars, friVars, lazVars, artVars, aoVars, wkVars, nmVars, marVars, csVars, molVars, pieVars, ekVars>>
notEk == <<calVars, campVars, lomVars, pugVars, emVars, basVars, friVars, lazVars, artVars, aoVars, wkVars, nmVars, marVars, csVars, molVars, pieVars, venVars>>

(***************************************************************************)
(* Helpers                                                                 *)
(***************************************************************************)
SeqToSet(s) == {s[i] : i \in 1..Len(s)}

(***************************************************************************)
(* Calabria/Calabria.py                                                    *)
(***************************************************************************)
CalIdle ==
  /\ cal_pc = "off" /\ cal_runs = 0
  /\ cal_done_keys = {} /\ cal_done_years = {}
  /\ cal_file_exists = FALSE /\ cal_file_keys = {} /\ cal_file_years = {}
  /\ cal_year = 1 /\ cal_year_records = <<>> /\ cal_law_num = 1
  /\ cal_consecutive_misses = 0 /\ cal_futures = <<>>
  /\ cal_excel = <<>>
  /\ cal_requested = {} /\ cal_loaded_years = {}
  /\ cal_api = {}

\* before the first start: empty output directory
CalInit ==
  /\ cal_pc = "dead" /\ cal_runs = 0
  /\ cal_done_keys = {} /\ cal_done_years = {}
  /\ cal_file_exists = FALSE /\ cal_file_keys = {} /\ cal_file_years = {}
  /\ cal_year = 1 /\ cal_year_records = <<>> /\ cal_law_num = 1
  /\ cal_consecutive_misses = 0 /\ cal_futures = <<>>
  /\ cal_excel = <<>>
  /\ cal_requested = {} /\ cal_loaded_years = {}
  /\ cal_api = 1 .. CalMaxLaw

\* lines 34-41: the state is loaded from PROGRESS_FILE or initialised empty
CalStart ==
  /\ cal_pc \in {"dead", "done"}
  /\ cal_runs < CalMaxRuns
  /\ cal_runs' = cal_runs + 1
  /\ cal_done_keys' = IF cal_file_exists THEN cal_file_keys ELSE {}
  /\ cal_done_years' = IF cal_file_exists THEN cal_file_years ELSE {}
  /\ cal_loaded_years' = IF cal_file_exists THEN cal_file_years ELSE {}
  /\ cal_requested' = {}
  /\ cal_year' = 1
  /\ cal_year_records' = <<>> /\ cal_law_num' = 1
  /\ cal_consecutive_misses' = 0 /\ cal_futures' = <<>>
  /\ cal_pc' = "year_loop"
  /\ UNCHANGED <<cal_file_exists, cal_file_keys, cal_file_years,
                 cal_excel>>
  /\ UNCHANGED <<cal_api, notCal>>

CalYearSkipped_NoSkip(year) == FALSE

\* line 151: if year in state["done_years"]
CalYearSkipped(year) == year \in cal_done_years

\* lines 149-159: top of the loop over the years
CalYearLoop ==
  /\ cal_pc = "year_loop"
  /\ IF cal_year > CalYears
       THEN /\ cal_pc' = "done"
            /\ UNCHANGED <<cal_year, cal_year_records, cal_law_num,
                           cal_consecutive_misses, cal_futures>>
       ELSE IF CalYearSkipped(cal_year)
         THEN /\ cal_year' = cal_year + 1
              /\ UNCHANGED <<cal_pc, cal_year_records, cal_law_num,
                             cal_consecutive_misses, cal_futures>>
         ELSE /\ cal_year_records' = <<>>
              /\ cal_law_num' = 1
              /\ cal_consecutive_misses' = 0
              /\ cal_futures' = <<>>
              /\ cal_pc' = "scan"
              /\ UNCHANGED cal_year
  /\ UNCHANGED <<cal_runs, cal_done_keys, cal_done_years,
                 cal_file_exists, cal_file_keys, cal_file_years, cal_excel,
                 cal_requested, cal_loaded_years>>
  /\ UNCHANGED <<cal_api, notCal>>

\* lines 164-168: one pass of the while loop up to the test of len(futures)
CalSubmit ==
  /\ cal_pc = "scan"
  /\ cal_consecutive_misses < Cal_MAX_CONSECUTIVE_MISSES
  /\ cal_futures' = [k \in DOMAIN cal_futures \cup {cal_law_num} |->
                       IF k = cal_law_num THEN "running" ELSE cal_futures[k]]
  /\ cal_law_num' = cal_law_num + 1
  /\ cal_pc' = IF Cardinality(DOMAIN cal_futures') >= Cal_MAX_WORKERS
                 THEN "consume" ELSE "scan"
  /\ UNCHANGED <<cal_runs, cal_done_keys, cal_done_years,
                 cal_file_exists, cal_file_keys, cal_file_years, cal_year,
                 cal_year_records, cal_consecutive_misses, cal_excel,
                 cal_requested, cal_loaded_years>>
  /\ UNCHANGED <<cal_api, notCal>>

\* line 164: the while condition fails, the drain loop starts
CalScanEnd ==
  /\ cal_pc = "scan"
  /\ cal_consecutive_misses >= Cal_MAX_CONSECUTIVE_MISSES
  /\ cal_pc' = "drain"
  /\ UNCHANGED <<cal_runs, cal_done_keys, cal_done_years,
                 cal_file_exists, cal_file_keys, cal_file_years, cal_year,
                 cal_year_records, cal_law_num, cal_consecutive_misses,
                 cal_futures, cal_excel, cal_requested,
                 cal_loaded_years>>
  /\ UNCHANGED <<cal_api, notCal>>

\* line 90: if key in state["done_keys"]
CalKeyDone(key) == key \in cal_done_keys

\* lines 88-144: fetch_pdf(year, law_num) in a pool thread.  ok is the outcome
\* of the request: status 200 with a body starting with %PDF, or anything else;
\* the API holds a PDF for the law numbers of cal_api
CalFetch(n) ==
  /\ cal_pc \notin {"off", "dead", "done"}
  /\ n \in DOMAIN cal_futures
  /\ cal_futures[n] = "running"
  /\ LET key == <<cal_year, n>> IN
     IF CalKeyDone(key)
       THEN /\ cal_futures' = [cal_futures EXCEPT ![n] = "miss"]
            /\ UNCHANGED <<cal_requested, cal_done_keys>>
       ELSE /\ cal_requested' = cal_requested \cup {key}
            /\ \E ok \in {TRUE, FALSE} :
                 IF ok /\ n \in cal_api
                   THEN /\ cal_done_keys' = cal_done_keys \cup {key}
                        /\ cal_futures' = [cal_futures EXCEPT ![n] = "found"]
                   ELSE /\ cal_futures' = [cal_futures EXCEPT ![n] = "miss"]
                        /\ UNCHANGED cal_done_keys
  /\ UNCHANGED <<cal_pc, cal_runs, cal_done_years, cal_file_exists,
                 cal_file_keys, cal_file_years, cal_year, cal_year_records,
                 cal_law_num, cal_consecutive_misses, cal_excel,
                 cal_loaded_years>>
  /\ UNCHANGED <<cal_api, notCal>>

CalRemove(f, n) == [k \in DOMAIN f \ {n} |-> f[k]]

\* lines 169-177: the first future as_completed yields is consumed and popped
CalConsume(n) ==
  /\ cal_pc = "consume"
  /\ n \in DOMAIN cal_futures
  /\ cal_futures[n] # "running"
  /\ IF cal_futures[n] = "found"
       THEN /\ cal_year_records' = Append(cal_year_records, <<cal_year, n>>)
            /\ cal_consecutive_misses' = 0
       ELSE /\ cal_consecutive_misses' = cal_consecutive_misses + 1
            /\ UNCHANGED cal_year_records
  /\ cal_futures' = CalRemove(cal_futures, n)
  /\ cal_pc' = "scan"
  /\ UNCHANGED <<cal_runs, cal_done_keys, cal_done_years,
                 cal_file_exists, cal_file_keys, cal_file_years, cal_year,
                 cal_law_num, cal_excel, cal_requested,
                 cal_loaded_years>>
  /\ UNCHANGED <<cal_api, notCal>>

\* lines 180-183: the drain loop consumes one more completed future
CalDrain(n) ==
  /\ cal_pc = "drain"
  /\ n \in DOMAIN cal_futures
  /\ cal_futures[n] # "running"
  /\ cal_year_records' = IF cal_futures[n] = "found"
                           THEN Append(cal_year_records, <<cal_year, n>>)
                           ELSE cal_year_records
  /\ cal_futures' = CalRemove(cal_futures, n)
  /\ UNCHANGED <<cal_pc, cal_runs, cal_done_keys, cal_done_years,
                 cal_file_exists, cal_file_keys, cal_file_years, cal_year,
                 cal_law_num, cal_consecutive_misses, cal_excel,
                 cal_requested, cal_loaded_years>>
  /\ UNCHANGED <<cal_api, notCal>>

CalDrained_Early == TRUE

\* lines 180-183 and the exit of the with block: every future was consumed
CalDrained == DOMAIN cal_futures = {}

\* lines 186-191: the year's records are written behind the rows of the file
CalSaveExcel ==
  /\ cal_pc = "drain"
  /\ CalDrained
  /\ cal_excel' = IF cal_year_records # <<>>
                    THEN cal_excel \o cal_year_records
                    ELSE cal_excel
  /\ cal_pc' = "save_progress"
  /\ UNCHANGED <<cal_runs, cal_done_keys, cal_done_years,
                 cal_file_exists, cal_file_keys, cal_file_years, cal_year,
                 cal_year_records, cal_law_num, cal_consecutive_misses,
                 cal_futures, cal_requested, cal_loaded_years>>
  /\ UNCHANGED <<cal_api, notCal>>

\* lines 195-196 and 43-45: the year is marked done and the state is saved.
\* The per-year variables are dead until lines 157-159 set them again; they
\* are put back here.
CalSaveProgress ==
  /\ cal_pc = "save_progress"
  /\ cal_done_years' = cal_done_years \cup {cal_year}
  /\ cal_file_exists' = TRUE
  /\ cal_file_keys' = cal_done_keys
  /\ cal_file_years' = cal_done_years'
  /\ cal_year' = cal_year + 1
  /\ cal_year_records' = <<>> /\ cal_law_num' = 1
  /\ cal_consecutive_misses' = 0
  /\ cal_requested' = {}
  /\ cal_pc' = "year_loop"
  /\ UNCHANGED <<cal_runs, cal_done_keys, cal_futures, cal_excel,
                 cal_loaded_years>>
  /\ UNCHANGED <<cal_api, notCal>>

\* the process is interrupted: memory and running threads are lost, files stay
CalInterrupt ==
  /\ cal_pc \notin {"off", "dead", "done"}
  /\ cal_pc' = "dead"
  /\ cal_done_keys' = {} /\ cal_done_years' = {}
  /\ cal_year' = 1 /\ cal_year_records' = <<>> /\ cal_law_num' = 1
  /\ cal_consecutive_misses' = 0 /\ cal_futures' = <<>>
  /\ cal_requested' = {} /\ cal_loaded_years' = {}
  /\ UNCHANGED <<cal_runs, cal_file_exists, cal_file_keys, cal_file_years,
                 cal_excel>>
  /\ UNCHANGED <<cal_api, notCal>>

\* lines 157-159 in the first run with an empty output directory: the scan
\* of year 1 is about to start; the API holds a PDF for any of the law
\* numbers 1..CalScanLaws
CalScanInit ==
  /\ cal_pc = "scan" /\ cal_runs = 1
  /\ cal_done_keys = {} /\ cal_done_years = {}
  /\ cal_file_exists = FALSE /\ cal_file_keys = {} /\ cal_file_years = {}
  /\ cal_year = 1 /\ cal_year_records = <<>> /\ cal_law_num = 1
  /\ cal_consecutive_misses = 0 /\ cal_futures = <<>>
  /\ cal_excel = <<>>
  /\ cal_requested = {} /\ cal_loaded_years = {}
  /\ cal_api \in SUBSET (1 .. CalScanLaws)

NextCalabria ==
  \/ CalStart
  \/ CalYearLoop
  \/ CalSubmit
  \/ CalScanEnd
  \/ \E n \in DOMAIN cal_futures : CalFetch(n)
  \/ \E n \in DOMAIN cal_futures : CalConsume(n)
  \/ \E n \in DOMAIN cal_futures : CalDrain(n)
  \/ CalSaveExcel
  \/ CalSaveProgress
  \/ CalInterrupt

\* one run that is not interrupted
NextCalabriaScan ==
  \/ CalYearLoop
  \/ CalSubmit
  \/ CalScanEnd
  \/ \E n \in DOMAIN cal_futures : CalFetch(n)
  \/ \E n \in DOMAIN cal_futures : CalConsume(n)
  \/ \E n \in DOMAIN cal_futures : CalDrain(n)
  \/ CalSaveExcel
  \/ CalSaveProgress

(***************************************************************************)
(* Campania/Campania.py                                                    *)
(***************************************************************************)
CampIds == 1..CampLaws

CampNoTasks == [i \in CampIds |-> "none"]
CampNoStats == [downloaded |-> 0, skipped |-> 0, failed |-> 0]

CampIdle ==
  /\ camp_pc = "off" /\ camp_runs = 0 /\ camp_page = 1
  /\ camp_empty_streak = 0 /\ camp_links = <<>> /\ camp_broke = FALSE
  /\ camp_consec = 0 /\ camp_done_ids = {} /\ camp_file_exists = FALSE
  /\ camp_file_ids = {} /\ camp_pdfs = {} /\ camp_rows = <<>>
  /\ camp_excel = <<>> /\ camp_task = CampNoTasks /\ camp_stats = CampNoStats
  /\ camp_fetched = {} /\ camp_dl = {}

\* before the first start: empty output directory
CampInit ==
  /\ camp_pc = "dead" /\ camp_runs = 0 /\ camp_page = 1
  /\ camp_empty_streak = 0 /\ camp_links = <<>> /\ camp_broke = FALSE
  /\ camp_consec = 0 /\ camp_done_ids = {} /\ camp_file_exists = FALSE
  /\ camp_file_ids = {} /\ camp_pdfs = {} /\ camp_rows = <<>>
  /\ camp_excel = <<>> /\ camp_task = CampNoTasks /\ camp_stats = CampNoStats
  /\ camp_fetched = {} /\ camp_dl = {}

\* lines 46-53 and 220-223: stats and state are set up, main enters
\* collect_detail_links
CampStart ==
  /\ camp_pc \in {"dead", "done"}
  /\ camp_runs < CampMaxRuns
  /\ camp_runs' = camp_runs + 1
  /\ camp_done_ids' = IF camp_file_exists THEN camp_file_ids ELSE {}
  /\ camp_stats' = CampNoStats
  /\ camp_page' = 1 /\ camp_empty_streak' = 0 /\ camp_links' = <<>>
  /\ camp_broke' = FALSE /\ camp_consec' = 0
  /\ camp_rows' = <<>> /\ camp_task' = CampNoTasks
  /\ camp_fetched' = {} /\ camp_dl' = {}
  /\ camp_pc' = "collect"
  /\ UNCHANGED <<camp_file_exists, camp_file_ids, camp_pdfs, camp_excel>>
  /\ UNCHANGED notCamp

\* line 127 applied as the links come in: list(dict.fromkeys(links)) keeps the
\* first occurrence of each link
CampAddLinks(links, cards) ==
  LET new == SelectSeq(cards, LAMBDA c : c \notin SeqToSet(links))
  IN  links \o (IF Len(new) = 2 /\ new[1] = new[2] THEN <<new[1]>> ELSE new)

\* the links one listing page can hold: up to two of the law ids
CampCards == {<<>>} \cup {<<i>> : i \in CampIds}
                    \cup {<<i, j>> : i, j \in CampIds}

\* lines 121-124: what the except branch does to empty_streak
CampStreakAfterError(streak) == streak

CampStreakAfterEmpty_Reset(streak) == 1

\* lines 101-103: what an empty page does to empty_streak
CampStreakAfterEmpty(streak) == streak + 1

\* lines 92-124: one pass of the page loop.  The request fails (except
\* branch), or returns a page with the cards found on it.
CampScanPage ==
  /\ camp_pc = "collect"
  /\ camp_page <= Camp_LAST_PAGE
  /\ \/ \* get_soup raised
        /\ camp_empty_streak' = CampStreakAfterError(camp_empty_streak)
        /\ camp_consec' = 0
        /\ camp_page' = camp_page + 1
        /\ UNCHANGED <<camp_links, camp_broke, camp_pc>>
     \/ \E cards \in CampCards :
          IF cards = <<>>
            THEN /\ camp_empty_streak' = CampStreakAfterEmpty(camp_empty_streak)
                 /\ camp_consec' = camp_consec + 1
                 /\ IF camp_empty_streak' >= Camp_EMPTY_LIMIT
                      THEN /\ camp_broke' = TRUE
                           /\ camp_pc' = "loaded"
                           /\ UNCHANGED camp_page
                      ELSE /\ camp_page' = camp_page + 1
                           /\ UNCHANGED <<camp_broke, camp_pc>>
                 /\ UNCHANGED camp_links
            ELSE /\ camp_empty_streak' = 0
                 /\ camp_consec' = 0
                 /\ camp_links' = CampAddLinks(camp_links, cards)
                 /\ camp_page' = camp_page + 1
                 /\ UNCHANGED <<camp_broke, camp_pc>>
  /\ UNCHANGED <<camp_runs, camp_done_ids, camp_file_exists, camp_file_ids,
                 camp_pdfs, camp_rows, camp_excel, camp_task, camp_stats,
                 camp_fetched, camp_dl>>
  /\ UNCHANGED notCamp

\* line 92: range(1, 150) is exhausted
CampScanEnd ==
  /\ camp_pc = "collect"
  /\ camp_page > Camp_LAST_PAGE
  /\ camp_pc' = "loaded"
  /\ UNCHANGED <<camp_runs, camp_page, camp_empty_streak, camp_links,
                 camp_broke, camp_consec, camp_done_ids, camp_file_exists,
                 camp_file_ids, camp_pdfs, camp_rows, camp_excel, camp_task,
                 camp_stats, camp_fetched, camp_dl>>
  /\ UNCHANGED notCamp

\* the lists collect_detail_links can return: law ids without repetition
CampLinkLists ==
  {l \in UNION {[1..n -> CampIds] : n \in 0..CampLaws} :
     \A a, b \in 1..Len(l) : l[a] = l[b] => a = b}

\* lines 77-127 as one step: collect_detail_links runs to its return
CampCollect ==
  /\ camp_pc = "collect"
  /\ camp_page = 1
  /\ \E l \in CampLinkLists : camp_links' = l
  /\ camp_pc' = "loaded"
  /\ UNCHANGED <<camp_runs, camp_page, camp_empty_streak, camp_broke,
                 camp_consec, camp_done_ids, camp_file_exists, camp_file_ids,
                 camp_pdfs, camp_rows, camp_excel, camp_task, camp_stats,
                 camp_fetched, camp_dl>>
  /\ UNCHANGED notCamp

\* lines 226-231: the rows of the spreadsheet are loaded and one process_law
\* call per link is submitted
CampSubmitAll ==
  /\ camp_pc = "loaded"
  /\ camp_rows' = camp_excel
  /\ camp_task' = [i \in CampIds |->
                     IF i \in SeqToSet(camp_links) THEN "queued" ELSE "none"]
  /\ camp_pc' = "process"
  \* the locals of collect_detail_links are gone
  /\ camp_page' = 1 /\ camp_empty_streak' = 0
  /\ camp_broke' = FALSE /\ camp_consec' = 0
  /\ UNCHANGED <<camp_runs, camp_links, camp_done_ids, camp_file_exists,
                 camp_file_ids, camp_pdfs, camp_excel, camp_stats,
                 camp_fetched, camp_dl>>
  /\ UNCHANGED notCamp

CampRunning == {i \in CampIds :
                  camp_task[i] \in {"fetch", "download", "downloaded", "appended"}}

CampPos(i) == CHOOSE k \in 1..Len(camp_links) : camp_links[k] = i

\* a pool thread is free and the calls submitted before this one have started
CampCanStart(i) ==
  /\ camp_task[i] = "queued"
  /\ Cardinality(CampRunning) < Camp_MAX_WORKERS
  /\ \A j \in CampIds : camp_task[j] = "queued" => CampPos(i) <= CampPos(j)

CampIsDone_Never(i) == FALSE

\* line 155: if law_id in state["done_ids"]
CampIsDone(i) == i \in camp_done_ids

CampBump(field) == [camp_stats EXCEPT ![field] = @ + 1]

\* lines 148-158: process_law up to the test of done_ids
CampCheckDone(i) ==
  /\ camp_pc = "process"
  /\ CampCanStart(i)
  /\ IF CampIsDone(i)
       THEN /\ camp_stats' = CampBump("skipped")
            /\ camp_task' = [camp_task EXCEPT ![i] = "skipped"]
       ELSE /\ camp_task' = [camp_task EXCEPT ![i] = "fetch"]
            /\ UNCHANGED camp_stats
  /\ UNCHANGED <<camp_pc, camp_runs, camp_page, camp_empty_streak, camp_links,
                 camp_broke, camp_consec, camp_done_ids, camp_file_exists,
                 camp_file_ids, camp_pdfs, camp_rows, camp_excel,
                 camp_fetched, camp_dl>>
  /\ UNCHANGED notCamp

\* lines 160-191: the detail page is requested and parsed.  The request
\* raises (failed is counted), a field is missing (return None), or the
\* metadata and the PDF link are found.
CampFetchDetail(i) ==
  /\ camp_pc = "process"
  /\ camp_task[i] = "fetch"
  /\ camp_fetched' = camp_fetched \cup {i}
  /\ \/ /\ camp_stats' = CampBump("failed")
        /\ camp_task' = [camp_task EXCEPT ![i] = "none_ret"]
     \/ /\ camp_task' = [camp_task EXCEPT ![i] = "none_ret"]
        /\ UNCHANGED camp_stats
     \/ /\ camp_task' = [camp_task EXCEPT ![i] = "download"]
        /\ UNCHANGED camp_stats
  /\ UNCHANGED <<camp_pc, camp_runs, camp_page, camp_empty_streak, camp_links,
                 camp_broke, camp_consec, camp_done_ids, camp_file_exists,
                 camp_file_ids, camp_pdfs, camp_rows, camp_excel, camp_dl>>
  /\ UNCHANGED notCamp

\* lines 132-143 and 193-199: download_pdf_with_retry.  ok_at is the attempt
\* that succeeds, 0 when all MAX_RETRIES attempts fail.
CampDownload(i) ==
  /\ camp_pc = "process"
  /\ camp_task[i] = "download"
  /\ camp_dl' = camp_dl \cup {i}
  /\ \E ok_at \in 0..Camp_MAX_RETRIES :
       IF ok_at > 0
         THEN /\ camp_pdfs' = camp_pdfs \cup {i}
              /\ camp_stats' = CampBump("downloaded")
              /\ camp_task' = [camp_task EXCEPT ![i] = "downloaded"]
         ELSE /\ camp_stats' = CampBump("failed")
              /\ camp_task' = [camp_task EXCEPT ![i] = "none_ret"]
              /\ UNCHANGED camp_pdfs
  /\ UNCHANGED <<camp_pc, camp_runs, camp_page, camp_empty_streak, camp_links,
                 camp_broke, camp_consec, camp_done_ids, camp_file_exists,
                 camp_file_ids, camp_rows, camp_excel, camp_fetched>>
  /\ UNCHANGED notCamp

\* line 201: state["done_ids"].append(law_id)
CampAppendDone(i) ==
  /\ camp_pc = "process"
  /\ camp_task[i] = "downloaded"
  /\ camp_done_ids' = camp_done_ids \cup {i}
  /\ camp_task' = [camp_task EXCEPT ![i] = "appended"]
  /\ UNCHANGED <<camp_pc, camp_runs, camp_page, camp_empty_streak, camp_links,
                 camp_broke, camp_consec, camp_file_exists, camp_file_ids,
                 camp_pdfs, camp_rows, camp_excel, camp_stats, camp_fetched,
                 camp_dl>>
  /\ UNCHANGED notCamp

\* lines 202-215 and 55-57: save_state(), then the row is returned; when
\* the file cannot be opened the except branch counts a failure
CampSaveState(i) ==
  /\ camp_pc = "process"
  /\ camp_task[i] = "appended"
  /\ \/ /\ camp_file_exists' = TRUE
        /\ camp_file_ids' = camp_done_ids
        /\ camp_task' = [camp_task EXCEPT ![i] = "row_ret"]
        /\ UNCHANGED camp_stats
     \/ /\ camp_stats' = CampBump("failed")
        /\ camp_task' = [camp_task EXCEPT ![i] = "none_ret"]
        /\ UNCHANGED <<camp_file_exists, camp_file_ids>>
  /\ UNCHANGED <<camp_pc, camp_runs, camp_page, camp_empty_streak, camp_links,
                 camp_broke, camp_consec, camp_done_ids, camp_pdfs, camp_rows,
                 camp_excel, camp_fetched, camp_dl>>
  /\ UNCHANGED notCamp

\* lines 240-244: main takes the result of a finished call; a row is appended
\* and the whole list is written to the spreadsheet
CampTakeResult(i) ==
  /\ camp_pc = "process"
  /\ camp_task[i] \in {"skipped", "none_ret", "row_ret"}
  /\ IF camp_task[i] = "row_ret"
       THEN /\ camp_rows' = Append(camp_rows, i)
            /\ camp_excel' = camp_rows'
       ELSE UNCHANGED <<camp_rows, camp_excel>>
  /\ camp_task' = [camp_task EXCEPT ![i] = "taken"]
  /\ UNCHANGED <<camp_pc, camp_runs, camp_page, camp_empty_streak, camp_links,
                 camp_broke, camp_consec, camp_done_ids, camp_file_exists,
                 camp_file_ids, camp_pdfs, camp_stats, camp_fetched, camp_dl>>
  /\ UNCHANGED notCamp

\* lines 253-256: every result was taken
CampFinish ==
  /\ camp_pc = "process"
  /\ \A i \in CampIds : camp_task[i] \in {"none", "taken"}
  /\ camp_pc' = "done"
  /\ UNCHANGED <<camp_runs, camp_page, camp_empty_streak, camp_links,
                 camp_broke, camp_consec, camp_done_ids, camp_file_exists,
                 camp_file_ids, camp_pdfs, camp_rows, camp_excel, camp_task,
                 camp_stats, camp_fetched, camp_dl>>
  /\ UNCHANGED notCamp

\* the process is interrupted: memory and threads are lost, files stay
CampInterrupt ==
  /\ camp_pc \in {"collect", "loaded", "process"}
  /\ camp_pc' = "dead"
  /\ camp_page' = 1 /\ camp_empty_streak' = 0 /\ camp_links' = <<>>
  /\ camp_broke' = FALSE /\ camp_consec' = 0 /\ camp_done_ids' = {}
  /\ camp_rows' = <<>> /\ camp_task' = CampNoTasks
  /\ camp_stats' = CampNoStats /\ camp_fetched' = {} /\ camp_dl' = {}
  /\ UNCHANGED <<camp_runs, camp_file_exists, camp_file_ids, camp_pdfs,
                 camp_excel>>
  /\ UNCHANGED notCamp

\* the page loop of collect_detail_links on its own
NextCampaniaCollect ==
  \/ CampStart
  \/ CampScanPage
  \/ CampScanEnd

NextCampania ==
  \/ CampStart
  \/ CampCollect
  \/ CampSubmitAll
  \/ \E i \in CampIds : CampCheckDone(i)
  \/ \E i \in CampIds : CampFetchDetail(i)
  \/ \E i \in CampIds : CampDownload(i)
  \/ \E i \in CampIds : CampAppendDone(i)
  \/ \E i \in CampIds : CampSaveState(i)
  \/ \E i \in CampIds : CampTakeResult(i)
  \/ CampFinish
  \/ CampInterrupt


(***************************************************************************)
(* Lombardia/Lombardy.py                                                   *)
(***************************************************************************)
LomIds == 1..LomLaws

LomNoCounters == [downloaded |-> 0, skipped |-> 0, failed |-> 0]

LomIdle ==
  /\ lom_pc = "off" /\ lom_runs = 0 /\ lom_idx = 1 /\ lom_attempt = 1
  /\ lom_files = [i \in LomIds |-> 0] /\ lom_results = <<>>
  /\ lom_excel = <<>> /\ lom_counters = LomNoCounters /\ lom_dl = {}

\* before the first start: empty output directory
LomInit ==
  /\ lom_pc = "dead" /\ lom_runs = 0 /\ lom_idx = 1 /\ lom_attempt = 1
  /\ lom_files = [i \in LomIds |-> 0] /\ lom_results = <<>>
  /\ lom_excel = <<>> /\ lom_counters = LomNoCounters /\ lom_dl = {}

\* lines 27 and 155-193: results is empty, the tree is opened, counters are
\* set up
LomStart ==
  /\ lom_pc \in {"dead", "done"}
  /\ lom_runs < LomMaxRuns
  /\ lom_runs' = lom_runs + 1
  /\ lom_results' = <<>>
  /\ lom_counters' = LomNoCounters
  /\ lom_idx' = 1 /\ lom_attempt' = 1 /\ lom_dl' = {}
  /\ lom_pc' = "year"
  /\ UNCHANGED <<lom_files, lom_excel>>
  /\ UNCHANGED notLom

\* lines 197-252: the year is opened and its laws are listed, or the click or
\* the wait fails and the year is passed over
LomOpenYear ==
  /\ lom_pc = "year"
  /\ \/ lom_pc' = "law"
     \/ lom_pc' = "final"
  /\ UNCHANGED <<lom_runs, lom_idx, lom_attempt, lom_files, lom_results,
                 lom_excel, lom_counters, lom_dl>>
  /\ UNCHANGED notLom

LomExists_Never(i) == FALSE

\* line 104: os.path.exists(final_path)
LomExists(i) == lom_files[i] # 0

LomCount(field) == [lom_counters EXCEPT ![field] = @ + 1]

\* lines 94-107: process_law up to the test of the target path
LomCheck ==
  /\ lom_pc = "law"
  /\ lom_idx <= LomLaws
  /\ IF LomExists(lom_idx)
       THEN /\ lom_counters' = LomCount("skipped")
            /\ lom_idx' = lom_idx + 1
            /\ UNCHANGED <<lom_pc, lom_attempt>>
       ELSE /\ lom_attempt' = 1
            /\ lom_pc' = "attempt"
            /\ UNCHANGED <<lom_counters, lom_idx>>
  /\ UNCHANGED <<lom_runs, lom_files, lom_results, lom_excel, lom_dl>>
  /\ UNCHANGED notLom

\* lines 53-57: save_excel
LomSaveExcel(results) == IF results = <<>> THEN lom_excel ELSE results

\* lines 109-148: one pass of the retry loop.  The page has no PDF button,
\* the download is saved, or an exception is raised.
LomAttempt ==
  /\ lom_pc = "attempt"
  /\ lom_dl' = lom_dl \cup {lom_idx}
  /\ \/ /\ lom_counters' = LomCount("skipped")
        /\ lom_idx' = lom_idx + 1 /\ lom_attempt' = 1 /\ lom_pc' = "law"
        /\ UNCHANGED <<lom_files, lom_results, lom_excel>>
     \/ /\ lom_files' = [lom_files EXCEPT ![lom_idx] = lom_runs]
        /\ lom_counters' = LomCount("downloaded")
        /\ lom_results' = Append(lom_results, lom_idx)
        /\ lom_excel' = IF Len(lom_results') % Lom_SAVE_EVERY = 0
                          THEN LomSaveExcel(lom_results')
                          ELSE lom_excel
        /\ lom_idx' = lom_idx + 1 /\ lom_attempt' = 1 /\ lom_pc' = "law"
     \/ /\ IF lom_attempt < Lom_MAX_RETRIES
             THEN /\ lom_attempt' = lom_attempt + 1
                  /\ UNCHANGED <<lom_counters, lom_idx, lom_pc>>
             ELSE /\ lom_counters' = LomCount("failed")
                  /\ lom_idx' = lom_idx + 1 /\ lom_attempt' = 1
                  /\ lom_pc' = "law"
        /\ UNCHANGED <<lom_files, lom_results, lom_excel>>
  /\ UNCHANGED lom_runs
  /\ UNCHANGED notLom

\* lines 253-255: the laws of the year are exhausted
LomEndYear ==
  /\ lom_pc = "law"
  /\ lom_idx > LomLaws
  /\ lom_pc' = "final"
  /\ UNCHANGED <<lom_runs, lom_idx, lom_attempt, lom_files, lom_results,
                 lom_excel, lom_counters, lom_dl>>
  /\ UNCHANGED notLom

\* lines 257-260: the final save_excel
LomFinalSave ==
  /\ lom_pc = "final"
  /\ lom_excel' = LomSaveExcel(lom_results)
  /\ lom_pc' = "done"
  /\ UNCHANGED <<lom_runs, lom_idx, lom_attempt, lom_files, lom_results,
                 lom_counters, lom_dl>>
  /\ UNCHANGED notLom

NextLombardy ==
  \/ LomStart
  \/ LomOpenYear
  \/ LomCheck
  \/ LomAttempt
  \/ LomEndYear
  \/ LomFinalSave

(***************************************************************************)
(* Puglia/Apulia.py                                                        *)
(***************************************************************************)
PugIds == 1..PugLaws

\* the result page a law is listed on
PugPageOf(i) == ((i - 1) % Pug_MAX_PAGES) + 1

PugNoTasks == [i \in PugIds |-> "none"]
PugNoStatus == [i \in PugIds |-> ""]

PugIdle ==
  /\ pug_pc = "off" /\ pug_runs = 0 /\ pug_page_num = 1
  /\ pug_task = PugNoTasks /\ pug_files = [i \in PugIds |-> 0]
  /\ pug_all_data = <<>> /\ pug_excel = <<>> /\ pug_status = PugNoStatus
  /\ pug_printed = {}

\* before the first start: empty output folder
PugInit ==
  /\ pug_pc = "dead" /\ pug_runs = 0 /\ pug_page_num = 1
  /\ pug_task = PugNoTasks /\ pug_files = [i \in PugIds |-> 0]
  /\ pug_all_data = <<>> /\ pug_excel = <<>> /\ pug_status = PugNoStatus
  /\ pug_printed = {}

\* lines 31 and 171-201: ALL_DATA is empty, the search is run
PugStart ==
  /\ pug_pc \in {"dead", "done"}
  /\ pug_runs < PugMaxRuns
  /\ pug_runs' = pug_runs + 1
  /\ pug_all_data' = <<>>
  /\ pug_page_num' = 1
  /\ pug_task' = PugNoTasks /\ pug_status' = PugNoStatus /\ pug_printed' = {}
  /\ pug_pc' = "page"
  /\ UNCHANGED <<pug_files, pug_excel>>
  /\ UNCHANGED notPug

\* lines 203-245: the page is reached and one worker call per link is
\* submitted, or (page_num > 1) the navigation fails and the page is passed
\* over
PugOpenPage ==
  /\ pug_pc = "page"
  /\ pug_page_num <= Pug_MAX_PAGES
  /\ \/ /\ pug_task' = [i \in PugIds |->
                          IF PugPageOf(i) = pug_page_num THEN "queued"
                                                         ELSE "none"]
        /\ pug_pc' = "batch"
        /\ UNCHANGED pug_page_num
     \/ /\ pug_page_num > 1
        /\ pug_page_num' = pug_page_num + 1
        /\ UNCHANGED <<pug_task, pug_pc>>
  /\ UNCHANGED <<pug_runs, pug_files, pug_all_data, pug_excel, pug_status,
                 pug_printed>>
  /\ UNCHANGED notPug

PugRunning == {i \in PugIds : pug_task[i] \in {"opened", "print"}}

\* a pool thread is free and the calls submitted before this one have started
PugCanStart(i) ==
  /\ pug_task[i] = "queued"
  /\ Cardinality(PugRunning) < Pug_MAX_WORKERS
  /\ \A j \in PugIds : pug_task[j] = "queued" => i <= j

\* lines 110-132: the worker opens the law's page and reads the metadata, or
\* an exception ends the call with no result
PugOpenLaw(i) ==
  /\ pug_pc = "batch"
  /\ PugCanStart(i)
  /\ \/ /\ pug_task' = [pug_task EXCEPT ![i] = "opened"]
        /\ UNCHANGED pug_status
     \/ /\ pug_task' = [pug_task EXCEPT ![i] = "ret_none"]
        /\ pug_status' = [pug_status EXCEPT ![i] = "Failed"]
  /\ UNCHANGED <<pug_pc, pug_runs, pug_page_num, pug_files, pug_all_data,
                 pug_excel, pug_printed>>
  /\ UNCHANGED notPug

PugExists_Never(i) == FALSE

\* line 134: os.path.exists(filepath)
PugExists(i) == pug_files[i] # 0

\* lines 134-149: the test of the target path
PugCheck(i) ==
  /\ pug_pc = "batch"
  /\ pug_task[i] = "opened"
  /\ IF PugExists(i)
       THEN /\ pug_status' = [pug_status EXCEPT ![i] = "Skipped"]
            /\ pug_task' = [pug_task EXCEPT ![i] = "ret_data"]
       ELSE /\ pug_task' = [pug_task EXCEPT ![i] = "print"]
            /\ UNCHANGED pug_status
  /\ UNCHANGED <<pug_pc, pug_runs, pug_page_num, pug_files, pug_all_data,
                 pug_excel, pug_printed>>
  /\ UNCHANGED notPug

\* lines 71-83 and 135-149: save_as_pdf prints the page and writes the file,
\* or fails
PugSaveAsPdf(i) ==
  /\ pug_pc = "batch"
  /\ pug_task[i] = "print"
  /\ pug_printed' = pug_printed \cup {i}
  /\ \/ /\ pug_files' = [pug_files EXCEPT ![i] = pug_runs]
        /\ pug_status' = [pug_status EXCEPT ![i] = "Downloaded"]
     \/ /\ pug_status' = [pug_status EXCEPT ![i] = "Failed"]
        /\ UNCHANGED pug_files
  /\ pug_task' = [pug_task EXCEPT ![i] = "ret_data"]
  /\ UNCHANGED <<pug_pc, pug_runs, pug_page_num, pug_all_data, pug_excel>>
  /\ UNCHANGED notPug

\* lines 248-251: the main thread takes a finished worker's result
PugTakeResult(i) ==
  /\ pug_pc = "batch"
  /\ pug_task[i] \in {"ret_data", "ret_none"}
  /\ pug_all_data' = IF pug_task[i] = "ret_data"
                       THEN Append(pug_all_data, i)
                       ELSE pug_all_data
  /\ pug_task' = [pug_task EXCEPT ![i] = "taken"]
  /\ UNCHANGED <<pug_pc, pug_runs, pug_page_num, pug_files, pug_excel,
                 pug_status, pug_printed>>
  /\ UNCHANGED notPug

RECURSIVE PugInsert(_, _)
PugInsert(s, x) ==
  IF s = <<>> THEN <<x>>
  ELSE IF Head(s) <= x THEN <<Head(s)>> \o PugInsert(Tail(s), x)
  ELSE <<x>> \o s

RECURSIVE PugSort(_)
\* lines 163-166: the rows sorted by date (a law's date grows with its id)
PugSort(s) == IF s = <<>> THEN <<>> ELSE PugInsert(PugSort(Tail(s)), Head(s))

\* lines 159-169: save_excel_batch
PugSaveExcelBatch(data) == IF data = <<>> THEN pug_excel ELSE PugSort(data)

\* lines 253-254: the batch is finished and the spreadsheet is written
PugEndBatch ==
  /\ pug_pc = "batch"
  /\ \A i \in PugIds : pug_task[i] \in {"none", "taken"}
  /\ pug_excel' = PugSaveExcelBatch(pug_all_data)
  /\ pug_page_num' = pug_page_num + 1
  /\ pug_task' = PugNoTasks
  /\ pug_pc' = "page"
  /\ UNCHANGED <<pug_runs, pug_files, pug_all_data, pug_status, pug_printed>>
  /\ UNCHANGED notPug

\* lines 203 and 258-260: range(1, MAX_PAGES + 1) is exhausted
PugFinish ==
  /\ pug_pc = "page"
  /\ pug_page_num > Pug_MAX_PAGES
  /\ pug_pc' = "done"
  /\ UNCHANGED <<pug_runs, pug_page_num, pug_task, pug_files, pug_all_data,
                 pug_excel, pug_status, pug_printed>>
  /\ UNCHANGED notPug

NextPuglia ==
  \/ PugStart
  \/ PugOpenPage
  \/ \E i \in PugIds : PugOpenLaw(i)
  \/ \E i \in PugIds : PugCheck(i)
  \/ \E i \in PugIds : PugSaveAsPdf(i)
  \/ \E i \in PugIds : PugTakeResult(i)
  \/ PugEndBatch
  \/ PugFinish

(***************************************************************************)
(* emilia-romagna/Emilia-Romagna.py                                        *)
(***************************************************************************)
EmIds == 1..EmLaws

\* the listing page a law is on
EmPageOf(i) == ((i - 1) % EmPages) + 1

EmNoTasks == [i \in EmIds |-> "none"]

EmIdle ==
  /\ em_pc = "off" /\ em_runs = 0 /\ em_page = 1 /\ em_task = EmNoTasks
  /\ em_processed = {} /\ em_files = [i \in EmIds |-> 0]
  /\ em_all_data = <<>> /\ em_excel = <<>> /\ em_requested = {}

\* before the first start: empty output directory
EmInit ==
  /\ em_pc = "dead" /\ em_runs = 0 /\ em_page = 1 /\ em_task = EmNoTasks
  /\ em_processed = {} /\ em_files = [i \in EmIds |-> 0]
  /\ em_all_data = <<>> /\ em_excel = <<>> /\ em_requested = {}

\* lines 84-107: main sets up all_data, the executor and current_url
EmStart ==
  /\ em_pc \in {"dead", "done"}
  /\ em_runs < EmMaxRuns
  /\ em_runs' = em_runs + 1
  /\ em_page' = 1 /\ em_task' = EmNoTasks /\ em_processed' = {}
  /\ em_all_data' = <<>> /\ em_requested' = {}
  /\ em_pc' = "page"
  /\ UNCHANGED <<em_files, em_excel>>
  /\ UNCHANGED notEm

EmStatus(t) == CASE t = "ret_skip" -> "Skipped (Exists)"
                 [] t = "ret_dl"   -> "Downloaded"
                 [] OTHER          -> "Failed"

EmDone(i) == em_task[i] \in {"ret_skip", "ret_dl", "ret_fail"}

RECURSIVE EmRows(_, _)
\* the rows of the futures in set S, in the order of future_to_data
EmRows(S, i) ==
  IF i > EmLaws THEN <<>>
  ELSE (IF i \in S THEN <<(<<i, EmStatus(em_task[i])>>)>> ELSE <<>>)
       \o EmRows(S, i + 1)

\* lines 196-200: the periodic save
EmPeriodicSave(data) ==
  IF Len(data) % Em_SAVE_INTERVAL = 0 /\ Len(data) > 0 THEN data ELSE em_excel

\* lines 110-182: the listing page is fetched and one download_file call is
\* submitted per link
EmSubmitPage ==
  /\ em_pc = "page"
  /\ em_page <= EmPages
  /\ em_task' = [i \in EmIds |->
                   IF EmPageOf(i) = em_page THEN "queued" ELSE em_task[i]]
  /\ em_pc' = "collect"
  /\ UNCHANGED <<em_runs, em_page, em_processed, em_files, em_all_data,
                 em_excel, em_requested>>
  /\ UNCHANGED notEm

\* lines 184-212: the finished calls not yet handled are moved to all_data,
\* the spreadsheet is written when due, and the next page is taken
EmCollectDone ==
  /\ em_pc = "collect"
  /\ LET done == {i \in EmIds : EmDone(i) /\ i \notin em_processed}
     IN  /\ em_processed' = em_processed \cup done
         /\ em_all_data' = em_all_data \o EmRows(done, 1)
         /\ em_excel' = EmPeriodicSave(em_all_data')
  /\ em_page' = em_page + 1
  /\ em_pc' = "page"
  /\ UNCHANGED <<em_runs, em_task, em_files, em_requested>>
  /\ UNCHANGED notEm

\* lines 112-117 and 207-212: the listing page cannot be fetched (break), or
\* the last page had no "Succ." link
EmLeaveLoop ==
  /\ em_pc = "page"
  /\ em_pc' = "cleanup"
  /\ UNCHANGED <<em_runs, em_page, em_task, em_processed, em_files,
                 em_all_data, em_excel, em_requested>>
  /\ UNCHANGED notEm

EmRunning == {i \in EmIds : em_task[i] = "get"}

\* a pool thread is free and the calls submitted before this one have started
EmCanStart(i) ==
  /\ em_task[i] = "queued"
  /\ Cardinality(EmRunning) < Em_MAX_WORKERS
  /\ \A j \in EmIds :
       em_task[j] = "queued" =>
         (EmPageOf(i) < EmPageOf(j) \/ (EmPageOf(i) = EmPageOf(j) /\ i <= j))

EmExists_Never(i) == FALSE

\* line 64: os.path.exists(filepath)
EmExists(i) == em_files[i] # 0

\* lines 61-66: download_file up to the test of the target path
EmCheck(i) ==
  /\ em_pc \in {"page", "collect", "cleanup"}
  /\ EmCanStart(i)
  /\ em_task' = [em_task EXCEPT ![i] = IF EmExists(i) THEN "ret_skip" ELSE "get"]
  /\ UNCHANGED <<em_pc, em_runs, em_page, em_processed, em_files, em_all_data,
                 em_excel, em_requested>>
  /\ UNCHANGED notEm

\* lines 68-80: the request.  Status 200 and the file is written, another
\* status, an exception before the file is opened, or an exception while
\* the chunks are written.
EmGet(i) ==
  /\ em_pc \in {"page", "collect", "cleanup"}
  /\ em_task[i] = "get"
  /\ em_requested' = em_requested \cup {i}
  /\ \/ /\ em_files' = [em_files EXCEPT ![i] = em_runs]
        /\ em_task' = [em_task EXCEPT ![i] = "ret_dl"]
     \/ /\ em_task' = [em_task EXCEPT ![i] = "ret_fail"]
        /\ UNCHANGED em_files
     \/ /\ em_files' = [em_files EXCEPT ![i] = 0 - em_runs]
        /\ em_task' = [em_task EXCEPT ![i] = "ret_fail"]
  /\ UNCHANGED <<em_pc, em_runs, em_page, em_processed, em_all_data, em_excel>>
  /\ UNCHANGED notEm

\* lines 219-223: the cleanup loop takes a finished call not handled before
EmCleanupTake(i) ==
  /\ em_pc = "cleanup"
  /\ EmDone(i)
  /\ i \notin em_processed
  /\ em_processed' = em_processed \cup {i}
  /\ em_all_data' = Append(em_all_data, <<i, EmStatus(em_task[i])>>)
  /\ UNCHANGED <<em_pc, em_runs, em_page, em_task, em_files, em_excel,
                 em_requested>>
  /\ UNCHANGED notEm

\* lines 225-238: every call was taken; the final save
EmFinalSave ==
  /\ em_pc = "cleanup"
  /\ \A i \in EmIds : em_task[i] = "none" \/ i \in em_processed
  /\ em_excel' = IF em_all_data # <<>> THEN em_all_data ELSE em_excel
  /\ em_pc' = "done"
  /\ UNCHANGED <<em_runs, em_page, em_task, em_processed, em_files,
                 em_all_data, em_requested>>
  /\ UNCHANGED notEm

NextEmilia ==
  \/ EmStart
  \/ EmSubmitPage
  \/ EmCollectDone
  \/ EmLeaveLoop
  \/ \E i \in EmIds : EmCheck(i)
  \/ \E i \in EmIds : EmGet(i)
  \/ \E i \in EmIds : EmCleanupTake(i)
  \/ EmFinalSave

(***************************************************************************)
(* BASILICATA/Basilicata.py                                                *)
(***************************************************************************)
BasIdle ==
  /\ bas_pc = "off" /\ bas_current_page = 1 /\ bas_shown = 1 /\ bas_n = 0
  /\ bas_i = 1 /\ bas_retries = Bas_RETRIES /\ bas_data_list = <<>>
  /\ bas_excel = <<>> /\ bas_files = {} /\ bas_read = 0

\* lines 129-130: main before the browser opens the start URL
BasInit ==
  /\ bas_pc = "init" /\ bas_current_page = 1 /\ bas_shown = 1 /\ bas_n = 0
  /\ bas_i = 1 /\ bas_retries = Bas_RETRIES /\ bas_data_list = <<>>
  /\ bas_excel = <<>> /\ bas_files = {} /\ bas_read = 0

\* The pager of the grid: the page numbers of the block of the shown page are
\* links (the shown page itself is not), a "..." before them leads to the
\* block before, a "..." after them to the block after.
BasBlockOf(p) == (p - 1) \div BasBlock

BasHasLink(shown, p) ==
  p \in 1..BasPages /\ p # shown /\ BasBlockOf(p) = BasBlockOf(shown)

BasHasPrevDots(shown) == BasBlockOf(shown) > 0

BasHasNextDots(shown) == BasBlockOf(shown) < BasBlockOf(BasPages)

\* the page shown after a click on the last "..." link
BasLastDots(shown) ==
  IF BasHasNextDots(shown) THEN (BasBlockOf(shown) + 1) * BasBlock + 1
                           ELSE BasBlockOf(shown) * BasBlock

BasRestore_Always(shown, target) == target

\* lines 93-116: check_and_restore_page; the page shown afterwards
BasRestore(shown, target) ==
  IF target = 1 THEN shown
  ELSE IF BasHasLink(shown, target) THEN target
  ELSE shown

\* lines 132-135: driver.get(URL)
BasOpen ==
  /\ bas_pc = "init"
  /\ bas_shown' = 1
  /\ bas_pc' = "page_top"
  /\ UNCHANGED <<bas_current_page, bas_n, bas_i, bas_retries, bas_data_list,
                 bas_excel, bas_files, bas_read>>
  /\ UNCHANGED notBas

\* lines 137-151: the grid is found and its data rows are counted; a timeout
\* of the wait leaves main through the finally block
BasPageTop ==
  /\ bas_pc = "page_top"
  /\ \/ /\ bas_n' = BasRows
        /\ bas_i' = 1 /\ bas_retries' = Bas_RETRIES
        /\ bas_read' = 0
        /\ bas_pc' = "row"
     \/ /\ bas_pc' = "final"
        /\ UNCHANGED <<bas_n, bas_i, bas_retries, bas_read>>
  /\ UNCHANGED <<bas_current_page, bas_shown, bas_data_list, bas_excel,
                 bas_files>>
  /\ UNCHANGED notBas

BasFlush_LastOnly(data) ==
  IF Len(data) % Bas_SAVE_FREQUENCY = 0 THEN <<data[Len(data)]>> ELSE bas_excel

\* lines 206-207: the periodic write of the spreadsheet
BasFlush(data) ==
  IF Len(data) % Bas_SAVE_FREQUENCY = 0 THEN data ELSE bas_excel

\* lines 209 and 151-153: the row is left and the next one starts
BasNextRow ==
  /\ bas_i' = bas_i + 1
  /\ bas_retries' = Bas_RETRIES

\* lines 211-213: the except branch; the row loop moves on when no retry is
\* left
BasFailed ==
  /\ bas_shown' = 1
  /\ IF bas_retries > 1
       THEN bas_retries' = bas_retries - 1 /\ bas_i' = bas_i
       ELSE BasNextRow

\* lines 153-213: one attempt on row bas_i
BasAttempt ==
  /\ bas_pc = "row"
  /\ bas_i <= bas_n
  /\ LET page == IF bas_current_page > 1
                   THEN BasRestore(bas_shown, bas_current_page)
                   ELSE bas_shown
         law == <<page, bas_i>>
     IN  \/ \* an exception before the row is read
            /\ bas_read' = 0
            /\ BasFailed
            /\ UNCHANGED <<bas_data_list, bas_excel, bas_files>>
         \/ \* the row is read; its file exists, or the download is tried
            /\ bas_read' = page
            /\ \/ UNCHANGED bas_files
               \/ law \notin bas_files /\ bas_files' = bas_files \cup {law}
            /\ bas_data_list' = Append(bas_data_list, law)
            /\ bas_excel' = BasFlush(bas_data_list')
            /\ bas_shown' = page
            /\ BasNextRow
         \/ \* the row is read and an exception follows (the file may have
            \* been stored)
            /\ bas_read' = page
            /\ \/ UNCHANGED bas_files
               \/ bas_files' = bas_files \cup {law}
            /\ BasFailed
            /\ UNCHANGED <<bas_data_list, bas_excel>>
  /\ UNCHANGED <<bas_pc, bas_current_page, bas_n>>
  /\ UNCHANGED notBas

\* line 151: range(len(data_indices)) is exhausted
BasRowsDone ==
  /\ bas_pc = "row"
  /\ bas_i > bas_n
  /\ bas_pc' = "paginate"
  /\ UNCHANGED <<bas_current_page, bas_shown, bas_n, bas_i, bas_retries,
                 bas_data_list, bas_excel, bas_files, bas_read>>
  /\ UNCHANGED notBas

\* lines 215-243: the pagination step
BasPaginate ==
  /\ bas_pc = "paginate"
  /\ LET page == IF bas_current_page > 1
                   THEN BasRestore(bas_shown, bas_current_page)
                   ELSE bas_shown
         next_page == bas_current_page + 1
     IN  IF BasHasLink(page, next_page)
           THEN /\ bas_current_page < BasMaxCurrent
                /\ bas_shown' = next_page
                /\ bas_current_page' = bas_current_page + 1
                /\ bas_pc' = "page_top"
           ELSE IF BasHasPrevDots(page) \/ BasHasNextDots(page)
                  THEN /\ bas_current_page < BasMaxCurrent
                       /\ bas_shown' = BasLastDots(page)
                       /\ bas_current_page' = bas_current_page + 1
                       /\ bas_pc' = "page_top"
                  ELSE /\ bas_shown' = page
                       /\ bas_pc' = "final"
                       /\ UNCHANGED bas_current_page
  /\ UNCHANGED <<bas_n, bas_i, bas_retries, bas_data_list, bas_excel,
                 bas_files, bas_read>>
  /\ UNCHANGED notBas

\* lines 245-250: the finally block; with an empty data_list the column
\* selection raises and nothing is written
BasFinal ==
  /\ bas_pc = "final"
  /\ bas_excel' = IF bas_data_list = <<>> THEN bas_excel ELSE bas_data_list
  /\ bas_pc' = "done"
  /\ UNCHANGED <<bas_current_page, bas_shown, bas_n, bas_i, bas_retries,
                 bas_data_list, bas_files, bas_read>>
  /\ UNCHANGED notBas

NextBasilicata ==
  \/ BasOpen
  \/ BasPageTop
  \/ BasAttempt
  \/ BasRowsDone
  \/ BasPaginate
  \/ BasFinal

(***************************************************************************)
(* Friuli-Venezia/Friuli-Venezia Giulia.py                                 *)
(***************************************************************************)
FriIdle ==
  /\ fri_pc = "off" /\ fri_runs = 0 /\ fri_idx = 1 /\ fri_excel = <<>>
  /\ fri_given = <<>>

\* before the first start: no spreadsheet
FriInit ==
  /\ fri_pc = "dead" /\ fri_runs = 0 /\ fri_idx = 1 /\ fri_excel = <<>>
  /\ fri_given = <<>>

\* lines 186-229: the categories are read and the laws are listed
FriStart ==
  /\ fri_pc \in {"dead", "done"}
  /\ fri_runs < FriMaxRuns
  /\ fri_runs' = fri_runs + 1
  /\ fri_idx' = 1 /\ fri_given' = <<>>
  /\ fri_pc' = "laws"
  /\ UNCHANGED fri_excel
  /\ UNCHANGED notFri

\* lines 110-111: the row is written below the last row of the sheet
FriAppendRow(rows, row) == Append(rows, row)

\* lines 106-115: save_metadata; the rows the file can hold afterwards
FriSaveMetadata(rows, row) ==
  IF rows # <<>> THEN {FriAppendRow(rows, row), <<row>>}
                 ELSE {<<row>>}

\* lines 117-169 and 231-233: process_single_law for the next law; on
\* "Success" its row is handed to save_metadata
FriProcessLaw ==
  /\ fri_pc = "laws"
  /\ fri_idx <= FriLaws
  /\ \/ /\ fri_given' = Append(fri_given, <<fri_runs, fri_idx>>)
        /\ fri_excel' \in FriSaveMetadata(fri_excel, <<fri_runs, fri_idx>>)
     \/ UNCHANGED <<fri_given, fri_excel>>
  /\ fri_idx' = fri_idx + 1
  /\ UNCHANGED <<fri_pc, fri_runs>>
  /\ UNCHANGED notFri

\* lines 231-236: the laws are exhausted
FriFinish ==
  /\ fri_pc = "laws"
  /\ fri_idx > FriLaws
  /\ fri_pc' = "done"
  /\ UNCHANGED <<fri_runs, fri_idx, fri_excel, fri_given>>
  /\ UNCHANGED notFri

\* an exception outside process_single_law's handlers, or an interrupt, ends
\* run_scraper through the finally block
FriAbort ==
  /\ fri_pc = "laws"
  /\ fri_pc' = "dead"
  /\ fri_idx' = 1 /\ fri_given' = <<>>
  /\ UNCHANGED <<fri_runs, fri_excel>>
  /\ UNCHANGED notFri

NextFriuli ==
  \/ FriStart
  \/ FriProcessLaw
  \/ FriFinish
  \/ FriAbort

(***************************************************************************)
(* Lazio/Lazio.py                                                          *)
(***************************************************************************)
LazIdle ==
  /\ laz_pc = "off" /\ laz_page_num = 1 /\ laz_urls = <<>> /\ laz_index = 1
  /\ laz_data = <<>> /\ laz_files = {} /\ laz_excel = <<>>
  /\ laz_critical = "no"

\* lines 157-172: main before the first listing page is requested
LazInit ==
  /\ laz_pc = "scan" /\ laz_page_num = 1 /\ laz_urls = <<>> /\ laz_index = 1
  /\ laz_data = <<>> /\ laz_files = {} /\ laz_excel = <<>>
  /\ laz_critical = "no"

\* lines 174-209: one pass of the phase 1 loop.  The page limit is reached,
\* the page has no link, it repeats known links, it brings a new law, or
\* driver.get raises and the outer except branch is taken.
LazScanPage ==
  /\ laz_pc = "scan"
  /\ \/ /\ laz_page_num > Laz_TEST_MODE_LIMIT
        /\ laz_pc' = "process"
        /\ UNCHANGED <<laz_page_num, laz_urls, laz_critical>>
     \/ /\ laz_page_num <= Laz_TEST_MODE_LIMIT
        /\ \/ /\ laz_pc' = "process"
              /\ UNCHANGED <<laz_page_num, laz_urls, laz_critical>>
           \/ /\ laz_page_num <= LazLaws
              /\ laz_urls' = Append(laz_urls, laz_page_num)
              /\ laz_page_num' = laz_page_num + 1
              /\ UNCHANGED <<laz_pc, laz_critical>>
           \/ /\ laz_critical' = "scan"
              /\ laz_pc' = "finally"
              /\ UNCHANGED <<laz_page_num, laz_urls>>
  /\ UNCHANGED <<laz_index, laz_data, laz_files, laz_excel>>
  /\ UNCHANGED notLaz

\* line 216: driver.get(url) can raise (page-load timeout, connection error)
LazGetRaises == TRUE

\* lines 214-266: one pass of the phase 2 loop.  driver.get raises and the
\* outer except branch is taken; the PDF is saved; the PDF fails and the HTML
\* snapshot is saved; or both fail and the law is dropped.
LazProcessLaw ==
  /\ laz_pc = "process"
  /\ laz_index <= Len(laz_urls)
  /\ LET law == laz_urls[laz_index]
     IN  \/ /\ LazGetRaises
            /\ laz_critical' = "process"
            /\ laz_pc' = "finally"
            /\ UNCHANGED <<laz_index, laz_data, laz_files>>
         \/ /\ \E kind \in {"pdf", "html", "none"} :
                 /\ laz_files' = IF kind = "none" THEN laz_files
                                 ELSE laz_files \cup {<<law, kind>>}
                 /\ laz_data' = IF kind = "none" THEN laz_data
                                ELSE Append(laz_data, <<law, kind>>)
            /\ laz_index' = laz_index + 1
            /\ UNCHANGED <<laz_pc, laz_critical>>
  /\ UNCHANGED <<laz_page_num, laz_urls, laz_excel>>
  /\ UNCHANGED notLaz

\* line 214: the phase 2 loop is exhausted
LazProcessEnd ==
  /\ laz_pc = "process"
  /\ laz_index > Len(laz_urls)
  /\ laz_pc' = "finally"
  /\ UNCHANGED <<laz_page_num, laz_urls, laz_index, laz_data, laz_files,
                 laz_excel, laz_critical>>
  /\ UNCHANGED notLaz

\* lines 271-281: the finally block writes the spreadsheet
LazFinally ==
  /\ laz_pc = "finally"
  /\ laz_excel' = IF laz_data # <<>> THEN laz_data ELSE laz_excel
  /\ laz_pc' = "done"
  /\ UNCHANGED <<laz_page_num, laz_urls, laz_index, laz_data, laz_files,
                 laz_critical>>
  /\ UNCHANGED notLaz

NextLazio ==
  \/ LazScanPage
  \/ LazProcessLaw
  \/ LazProcessEnd
  \/ LazFinally

(***************************************************************************)
(* Tuscany/Tuscany.py and Liguria/Liguria.py.  The two scripts have the    *)
(* same main and the same process_article; line numbers are Tuscany's.     *)
(***************************************************************************)
ArtIds == 1 .. ArtUrls

\* file names: 0 is <Region>_Unknown_0000-00-00.pdf, u is the name made of
\* the number and date of law u
ArtNames == 0 .. ArtUrls

ArtNoTasks == [u \in ArtIds |-> "none"]

ArtNoFiles == [n \in ArtNames |-> 0]

ArtNoCounters == [downloaded |-> 0, skipped |-> 0, failed |-> 0]

ArtIdle ==
  /\ art_script = "off" /\ art_pc = "off" /\ art_year = 1
  /\ art_processed_urls = {} /\ art_task = ArtNoTasks /\ art_sem = 0
  /\ art_pages = {} /\ art_files = ArtNoFiles /\ art_results = <<>>
  /\ art_excel = <<>>
  /\ art_counters = ArtNoCounters

\* lines 21-23, 143-179: module globals, the semaphore, an empty OUTPUT_DIR
ArtInit ==
  /\ art_script \in {"Tuscany", "Liguria"}
  /\ art_pc = "years" /\ art_year = 1
  /\ art_processed_urls = {} /\ art_task = ArtNoTasks
  /\ art_sem = Art_MAX_PARALLEL_TABS
  /\ art_pages = {} /\ art_files = ArtNoFiles /\ art_results = <<>>
  /\ art_excel = <<>>
  /\ art_counters = ArtNoCounters

\* the article links under year y; law 1 is linked under every year
ArtListing(y) == {u \in ArtIds : ((u - 1) % ArtYears) + 1 = y} \cup {1}

\* lines 27-65: extract_metadata gives the number and date of the law, or
\* "Unknown" and "0000-00-00" when neither pattern matches the page text
ArtMetadata(u) == IF u > ArtUnknownLaws THEN u ELSE 0

\* lines 69-84: save_excel; to_excel can fail with PermissionError
ArtSaveExcel(results, excel) ==
  IF results = <<>> THEN {excel} ELSE {results, excel}

\* lines 181-213: one year of main up to the gather.  The year has no icon
\* or no article, or the links not seen before become tasks.
ArtStartYear ==
  /\ art_pc = "years"
  /\ art_year <= ArtYears
  /\ \/ /\ art_year' = art_year + 1
        /\ UNCHANGED <<art_pc, art_processed_urls, art_task>>
     \/ LET urls == ArtListing(art_year) \ art_processed_urls
        IN  /\ art_processed_urls' = art_processed_urls \cup urls
            /\ art_task' = [u \in ArtIds |->
                              IF u \in urls THEN "waiting" ELSE "none"]
            /\ art_pc' = "gather"
            /\ UNCHANGED art_year
  /\ UNCHANGED <<art_counters, art_script, art_sem, art_pages, art_files, art_results,
                 art_excel>>
  /\ UNCHANGED notArt

ArtCanAcquire_Always == TRUE

\* line 89: async with sem waits while the semaphore has no free slot
ArtCanAcquire == art_sem > 0

\* line 89: a task enters the semaphore
ArtAcquire(u) ==
  /\ art_task[u] = "waiting"
  /\ ArtCanAcquire
  /\ art_sem' = art_sem - 1
  /\ art_task' = [art_task EXCEPT ![u] = "holding"]
  /\ UNCHANGED <<art_counters, art_script, art_pc, art_year, art_processed_urls, art_pages,
                 art_files, art_results, art_excel>>
  /\ UNCHANGED notArt

\* line 90: context.new_page(); when it raises the task leaves the
\* semaphore with the exception, which the gather of main re-raises
ArtNewPage(u) ==
  /\ art_task[u] = "holding"
  /\ \/ /\ art_pages' = art_pages \cup {u}
        /\ art_task' = [art_task EXCEPT ![u] = "open"]
        /\ UNCHANGED <<art_sem, art_pc>>
     \/ /\ art_sem' = art_sem + 1
        /\ art_task' = [art_task EXCEPT ![u] = "ended"]
        /\ art_pc' = "crashed"
        /\ UNCHANGED art_pages
  /\ UNCHANGED <<art_counters, art_script, art_year, art_processed_urls, art_files,
                 art_results, art_excel>>
  /\ UNCHANGED notArt

\* lines 92-136: the body of the try.  Something raises, the page has no
\* PDF icon, or the download is moved to the name made of the metadata.
ArtBody(u) ==
  /\ art_task[u] = "open"
  /\ art_task' = [art_task EXCEPT ![u] = "finally"]
  /\ \/ /\ art_counters' = [art_counters EXCEPT !.failed = @ + 1]
        /\ UNCHANGED <<art_files, art_results, art_excel>>
     \/ /\ art_counters' = [art_counters EXCEPT !.skipped = @ + 1]
        /\ UNCHANGED <<art_files, art_results, art_excel>>
     \/ LET final_name == ArtMetadata(u)
            results    == Append(art_results, <<u, final_name>>)
        IN  /\ art_files' = [art_files EXCEPT ![final_name] = u]
            /\ art_counters' = [art_counters EXCEPT !.downloaded = @ + 1]
            /\ art_results' = results
            /\ art_excel' \in IF Len(results) % Art_SAVE_EVERY = 0
                              THEN ArtSaveExcel(results, art_excel)
                              ELSE {art_excel}
  /\ UNCHANGED <<art_script, art_pc, art_year, art_processed_urls, art_sem,
                 art_pages>>
  /\ UNCHANGED notArt

\* lines 138-139: page.close() in the finally block
ArtClosePage(u) ==
  /\ art_task[u] = "finally"
  /\ art_pages' = art_pages \ {u}
  /\ art_task' = [art_task EXCEPT ![u] = "closed"]
  /\ UNCHANGED <<art_counters, art_script, art_pc, art_year, art_processed_urls, art_sem,
                 art_files, art_results, art_excel>>
  /\ UNCHANGED notArt

\* line 89: the end of async with sem
ArtRelease(u) ==
  /\ art_task[u] = "closed"
  /\ art_sem' = art_sem + 1
  /\ art_task' = [art_task EXCEPT ![u] = "ended"]
  /\ UNCHANGED <<art_counters, art_script, art_pc, art_year, art_processed_urls, art_pages,
                 art_files, art_results, art_excel>>
  /\ UNCHANGED notArt

\* lines 215-216: the gather returns when every task of the year has ended
ArtEndYear ==
  /\ art_pc = "gather"
  /\ \A u \in ArtIds : art_task[u] \in {"none", "ended"}
  /\ art_task' = ArtNoTasks
  /\ art_year' = art_year + 1
  /\ art_pc' = "years"
  /\ UNCHANGED <<art_counters, art_script, art_processed_urls, art_sem, art_pages,
                 art_files, art_results, art_excel>>
  /\ UNCHANGED notArt

\* lines 218-222: the last save_excel
ArtFinish ==
  /\ art_pc = "years"
  /\ art_year > ArtYears
  /\ art_excel' \in ArtSaveExcel(art_results, art_excel)
  /\ art_pc' = "done"
  /\ UNCHANGED <<art_counters, art_script, art_year, art_processed_urls, art_task, art_sem,
                 art_pages, art_files, art_results>>
  /\ UNCHANGED notArt

NextArticle ==
  \/ ArtStartYear
  \/ \E u \in ArtIds : ArtAcquire(u)
  \/ \E u \in ArtIds : ArtNewPage(u)
  \/ \E u \in ArtIds : ArtBody(u)
  \/ \E u \in ArtIds : ArtClosePage(u)
  \/ \E u \in ArtIds : ArtRelease(u)
  \/ ArtEndYear
  \/ ArtFinish

(***************************************************************************)
(* Valle d'Aosta/Aosta.py                                                  *)
(***************************************************************************)
AoIds == 1 .. AoLaws

AoNoTasks == [l \in AoIds |-> "none"]

AoIdle ==
  /\ ao_pc = "off" /\ ao_year = 1 /\ ao_task = AoNoTasks /\ ao_sem = 0
  /\ ao_pages = {} /\ ao_files = {} /\ ao_results = <<>> /\ ao_excel = <<>>
  /\ ao_abrogated = {}

\* the rows of an earlier run that listed the laws of a set, each in its
\* turn, and stored the PDF of each
RECURSIVE AoEarlierRows(_)
AoEarlierRows(laws) ==
  IF laws = {} THEN <<>>
  ELSE LET l == CHOOSE x \in laws : \A y \in laws : x >= y
       IN  Append(AoEarlierRows(laws \ {l}), <<l, "Downloaded">>)

\* lines 259-271: main before the first year; OUTPUT_DIR and the
\* spreadsheet are as an earlier run left them, and all_results is read
\* from the spreadsheet
AoInit ==
  /\ ao_pc = "years" /\ ao_year = 1 /\ ao_task = AoNoTasks /\ ao_sem = 0
  /\ ao_pages = {}
  /\ ao_files \in SUBSET (AoIds \cap (1 .. AoEarlierLaws))
  /\ ao_results = AoEarlierRows(ao_files)
  /\ ao_excel = ao_results
  /\ ao_abrogated = {}

\* the laws found by the search of year y
AoListing(y) == {l \in AoIds : ((l - 1) % AoYears) + 1 = y}

\* lines 273-366: one year of main up to the gather.  No law is found, or
\* each law found becomes a task under a new semaphore.
AoStartYear ==
  /\ ao_pc = "years"
  /\ ao_year <= AoYears
  /\ \/ /\ ao_year' = ao_year + 1
        /\ UNCHANGED <<ao_pc, ao_task, ao_sem>>
     \/ /\ ao_task' = [l \in AoIds |->
                         IF l \in AoListing(ao_year) THEN "waiting"
                         ELSE "none"]
        /\ ao_sem' = Ao_MAX_WORKERS
        /\ ao_pc' = "gather"
        /\ UNCHANGED ao_year
  /\ UNCHANGED <<ao_pages, ao_files, ao_results, ao_excel, ao_abrogated>>
  /\ UNCHANGED notAo

AoCanAcquire_Always == TRUE

\* line 157: async with semaphore waits while it has no free slot
AoCanAcquire == ao_sem > 0

\* line 157: a task enters the semaphore
AoAcquire(l) ==
  /\ ao_task[l] = "waiting"
  /\ AoCanAcquire
  /\ ao_sem' = ao_sem - 1
  /\ ao_task' = [ao_task EXCEPT ![l] = "holding"]
  /\ UNCHANGED <<ao_pc, ao_year, ao_pages, ao_files, ao_results, ao_excel,
                 ao_abrogated>>
  /\ UNCHANGED notAo

\* line 158: context.new_page(); when it raises the task leaves the
\* semaphore with the exception, which the gather of main re-raises
AoNewPage(l) ==
  /\ ao_task[l] = "holding"
  /\ \/ /\ ao_pages' = ao_pages \cup {l}
        /\ ao_task' = [ao_task EXCEPT ![l] = "open"]
        /\ UNCHANGED <<ao_sem, ao_pc>>
     \/ /\ ao_sem' = ao_sem + 1
        /\ ao_task' = [ao_task EXCEPT ![l] = "ended"]
        /\ ao_pc' = "crashed"
        /\ UNCHANGED ao_pages
  /\ UNCHANGED <<ao_year, ao_files, ao_results, ao_excel, ao_abrogated>>
  /\ UNCHANGED notAo

\* lines 175-240: the body of the try.  Loading the page raises; the law is
\* abrogated (its PDF is removed if os.remove succeeds, the page is closed);
\* the PDF exists (the page is closed); the PDF is generated; or generating
\* it raises.
AoBody(l) ==
  /\ ao_task[l] = "open"
  /\ ao_task' = [ao_task EXCEPT ![l] = "finally"]
  /\ \/ /\ ao_results' = Append(ao_results, <<l, "Error">>)
        /\ UNCHANGED <<ao_files, ao_pages, ao_abrogated>>
     \/ /\ ao_files' \in {ao_files \ {l}, ao_files}
        /\ ao_pages' = ao_pages \ {l}
        /\ ao_abrogated' = ao_abrogated \cup {l}
        /\ UNCHANGED ao_results
     \/ /\ l \in ao_files
        /\ ao_results' = Append(ao_results, <<l, "Skipped">>)
        /\ ao_pages' = ao_pages \ {l}
        /\ UNCHANGED <<ao_files, ao_abrogated>>
     \/ /\ l \notin ao_files
        /\ ao_files' = ao_files \cup {l}
        /\ ao_results' = Append(ao_results, <<l, "Downloaded">>)
        /\ UNCHANGED <<ao_pages, ao_abrogated>>
  /\ UNCHANGED <<ao_pc, ao_year, ao_sem, ao_excel>>
  /\ UNCHANGED notAo

\* lines 242-244: page.close() in the finally block
AoClosePage(l) ==
  /\ ao_task[l] = "finally"
  /\ ao_pages' = ao_pages \ {l}
  /\ ao_task' = [ao_task EXCEPT ![l] = "closed"]
  /\ UNCHANGED <<ao_pc, ao_year, ao_sem, ao_files, ao_results, ao_excel,
                 ao_abrogated>>
  /\ UNCHANGED notAo

\* line 157: the end of async with semaphore
AoRelease(l) ==
  /\ ao_task[l] = "closed"
  /\ ao_sem' = ao_sem + 1
  /\ ao_task' = [ao_task EXCEPT ![l] = "ended"]
  /\ UNCHANGED <<ao_pc, ao_year, ao_pages, ao_files, ao_results, ao_excel,
                 ao_abrogated>>
  /\ UNCHANGED notAo

\* lines 366-378: the gather returns when every task of the year has ended;
\* the spreadsheet is rewritten from all_results
AoEndYear ==
  /\ ao_pc = "gather"
  /\ \A l \in AoIds : ao_task[l] \in {"none", "ended"}
  /\ ao_task' = AoNoTasks
  /\ ao_excel' = ao_results
  /\ ao_year' = ao_year + 1
  /\ ao_pc' = "years"
  /\ UNCHANGED <<ao_sem, ao_pages, ao_files, ao_results, ao_abrogated>>
  /\ UNCHANGED notAo

\* lines 380-381: every year was gone through
AoFinish ==
  /\ ao_pc = "years"
  /\ ao_year > AoYears
  /\ ao_pc' = "done"
  /\ UNCHANGED <<ao_year, ao_task, ao_sem, ao_pages, ao_files, ao_results,
                 ao_excel, ao_abrogated>>
  /\ UNCHANGED notAo

NextAosta ==
  \/ AoStartYear
  \/ \E l \in AoIds : AoAcquire(l)
  \/ \E l \in AoIds : AoNewPage(l)
  \/ \E l \in AoIds : AoBody(l)
  \/ \E l \in AoIds : AoClosePage(l)
  \/ \E l \in AoIds : AoRelease(l)
  \/ AoEndYear
  \/ AoFinish

(***************************************************************************)
(* The per-law worker of the thread-pool scripts: process_law_worker of    *)
(* Piemonte/Piemonte.py and Puglia/Apulia.py, process_single_law of        *)
(* Umbria/Umbria.py.                                                       *)
(***************************************************************************)
WkIds == 1 .. WkCalls

WkIdle ==
  /\ wk_script = "off"
  /\ wk_pc = [c \in WkIds |-> "off"]
  /\ wk_attempt = [c \in WkIds |-> 0]
  /\ wk_driver = [c \in WkIds |-> 0]
  /\ wk_drivers = [c \in WkIds |-> <<>>]
  /\ wk_status = [c \in WkIds |-> "Failed"]

\* Piemonte 245-247, Puglia 110-112, Umbria 112-114: the calls submitted to
\* the pool, none has started a browser
WkInit ==
  /\ wk_script \in {"Piemonte", "Puglia", "Umbria"}
  /\ wk_pc = [c \in WkIds |-> "start"]
  /\ wk_attempt = [c \in WkIds |-> 0]
  /\ wk_driver = [c \in WkIds |-> 0]
  /\ wk_drivers = [c \in WkIds |-> <<>>]
  /\ wk_status = [c \in WkIds |-> "Failed"]

\* the status of the except branch
WkFailed == IF wk_script = "Piemonte" THEN "Error" ELSE "Failed"

\* Puglia 33-64: setup_driver starts Chrome (line 59) and then sends a CDP
\* command (line 62), which can raise; Piemonte and Umbria return the new
\* browser at once
WkSetupRaisesLate == wk_script = "Puglia"

\* Piemonte 250-253, Puglia 114-116, Umbria 116-117: driver = setup_driver().
\* The browser is started and assigned; setup_driver raises before a browser
\* is started; or it raises after it started one, which is not assigned.
WkSetup(c) ==
  /\ wk_pc[c] = "start"
  /\ wk_attempt' = [wk_attempt EXCEPT ![c] = @ + 1]
  /\ \/ /\ wk_drivers' = [wk_drivers EXCEPT ![c] = Append(@, "live")]
        /\ wk_driver' = [wk_driver EXCEPT ![c] = Len(wk_drivers[c]) + 1]
        /\ wk_pc' = [wk_pc EXCEPT ![c] = "body"]
        /\ UNCHANGED wk_status
     \/ /\ wk_driver' = [wk_driver EXCEPT ![c] = 0]
        /\ wk_status' = [wk_status EXCEPT ![c] = WkFailed]
        /\ wk_pc' = [wk_pc EXCEPT ![c] = "finally"]
        /\ UNCHANGED wk_drivers
     \/ /\ WkSetupRaisesLate
        /\ wk_drivers' = [wk_drivers EXCEPT ![c] = Append(@, "live")]
        /\ wk_driver' = [wk_driver EXCEPT ![c] = 0]
        /\ wk_status' = [wk_status EXCEPT ![c] = WkFailed]
        /\ wk_pc' = [wk_pc EXCEPT ![c] = "finally"]
  /\ UNCHANGED wk_script
  /\ UNCHANGED notWk

\* Piemonte 254-325, Puglia 117-152, Umbria 119-153: the rest of the try,
\* working on the call's own browser.  Piemonte quits the browser of an
\* abrogated law before it returns (line 280).
WkBody(c) ==
  /\ wk_pc[c] = "body"
  /\ wk_drivers[c][wk_driver[c]] = "live"
  /\ wk_pc' = [wk_pc EXCEPT ![c] = "finally"]
  /\ \/ /\ wk_script = "Piemonte"
        /\ \/ /\ wk_status' = [wk_status EXCEPT ![c] = "Skipped (Abrogated)"]
              /\ wk_drivers' = [wk_drivers EXCEPT ![c][wk_driver[c]] = "quit"]
           \/ /\ \E st \in {"Downloaded", "Failed (Empty)", "Error"} :
                   wk_status' = [wk_status EXCEPT ![c] = st]
              /\ UNCHANGED wk_drivers
     \/ /\ wk_script # "Piemonte"
        /\ \E st \in {"Downloaded", "Failed", "Skipped"} :
             wk_status' = [wk_status EXCEPT ![c] = st]
        /\ UNCHANGED wk_drivers
  /\ UNCHANGED <<wk_script, wk_attempt, wk_driver>>
  /\ UNCHANGED notWk

\* Piemonte 327-331 and 249, Puglia 153-157, Umbria 154-161: the finally
\* block quits the browser held in driver; Piemonte then tries again unless
\* the law was downloaded or abrogated or the attempts are used up
WkFinally(c) ==
  /\ wk_pc[c] = "finally"
  /\ wk_drivers' = IF wk_driver[c] = 0 THEN wk_drivers
                   ELSE [wk_drivers EXCEPT ![c][wk_driver[c]] = "quit"]
  /\ wk_pc' = [wk_pc EXCEPT ![c] =
                 IF /\ wk_script = "Piemonte"
                    /\ wk_status[c] \notin {"Downloaded", "Skipped (Abrogated)"}
                    /\ wk_attempt[c] < Pie_MAX_RETRIES
                 THEN "start" ELSE "returned"]
  /\ UNCHANGED <<wk_script, wk_attempt, wk_driver, wk_status>>
  /\ UNCHANGED notWk

NextWorkers ==
  \/ \E c \in WkIds : WkSetup(c)
  \/ \E c \in WkIds : WkBody(c)
  \/ \E c \in WkIds : WkFinally(c)

(***************************************************************************)
(* The file names of Trentino-Alto Adige.py, Aosta.py and Lazio.py.  A     *)
(* name is the sequence of its parts; a part is <<kind, value>>.           *)
(***************************************************************************)
NmIdle ==
  /\ nm_script = "off" /\ nm_pc = "off" /\ nm_number = 0 /\ nm_date = 0
  /\ nm_year = 0 /\ nm_id = 1 /\ nm_type = "DOC" /\ nm_pdf_ok = TRUE
  /\ nm_record = <<>> /\ nm_filename = <<>> /\ nm_count = 0

\* a script before it opens a law page
NmInit ==
  /\ nm_script \in {"Trentino", "Aosta", "Lazio"}
  /\ nm_pc = "idle" /\ nm_number = 0 /\ nm_date = 0
  /\ nm_year = 0 /\ nm_id = 1 /\ nm_type = "DOC" /\ nm_pdf_ok = TRUE
  /\ nm_record = <<>> /\ nm_filename = <<>> /\ nm_count = 0

\* Trentino 142-167: the date is the one of the page, else the first of
\* January of the year in the title, else unknown; the number defaults to 0
TaaRecord(number, date, year) ==
  << <<"number", number>>,
     IF date # 0 THEN <<"dd/mm/yyyy", date>>
     ELSE IF year # 0 THEN <<"01/01/yyyy", year>>
     ELSE <<"Unknown", 0>> >>

\* Trentino 142-160, 182-184: TrentinoAA_{law_num}_{file_date_iso}_{suffix}.pdf
TaaFilename(number, date, year, type) ==
  << <<"TrentinoAA", 0>>, <<"number", number>>,
     IF date # 0 THEN <<"yyyy-mm-dd", date>>
     ELSE IF year # 0 THEN <<"yyyy-01-01", year>>
     ELSE <<"0000-00-00", 0>>,
     <<type, 0>>, <<"pdf", 0>> >>

\* Aosta 98-125, 329-334: clean_date and law_num of parse_metadata
AoRecord(number, date) ==
  << <<"number", number>>,
     IF date # 0 THEN <<"d month yyyy", date>> ELSE <<"Unknown", 0>> >>

AoNamedById_Never(date) == FALSE

\* Aosta 324: the name is made of the url id when the date is unknown
AoNamedById(date) == date = 0

\* Aosta 319-326: ValleAosta_{law_num}_{iso_date}.pdf or ValleAosta_ID_{pk_id}.pdf
AoFilename(number, date, id) ==
  IF AoNamedById(date)
  THEN << <<"ValleAosta", 0>>, <<"ID", 0>>, <<"id", id>>, <<"pdf", 0>> >>
  ELSE << <<"ValleAosta", 0>>, <<"number", number>>, <<"yyyy-mm-dd", date>>,
          <<"pdf", 0>> >>

\* Lazio 59-155, 244-259: Number and Date of scrape_metadata, "N/A" when
\* not found
LazRecord(number, date) ==
  << IF number # 0 THEN <<"number", number>> ELSE <<"N/A", 0>>,
     IF date # 0 THEN <<"d month yyyy", date>> ELSE <<"N/A", 0>> >>

\* Lazio 221-254: Lazio_{safe_law_num}_{safe_law_date} with the number or
\* ID_{id of the URL}, the sanitized date text or unknown_date, and the
\* extension pdf, or html when the PDF could not be written
LazFilename(number, date, id, pdf_ok) ==
  << <<"Lazio", 0>> >>
  \o (IF number # 0 THEN << <<"number", number>> >>
      ELSE << <<"ID", 0>>, <<"id", id>> >>)
  \o << IF date # 0 THEN <<"d month yyyy", date>> ELSE <<"unknown_date", 0>>,
        IF pdf_ok THEN <<"pdf", 0>> ELSE <<"html", 0>> >>

\* Trentino 129-182, Aosta 307-320, Lazio 216-218: what the page of the law
\* gives
NmScrape ==
  /\ nm_pc = "idle"
  /\ nm_number' \in 0 .. NmValues
  /\ nm_date' \in 0 .. NmValues
  /\ nm_year' \in IF nm_script = "Trentino" THEN 0 .. 1 ELSE {0}
  /\ nm_id' \in 1 .. NmValues
  /\ nm_type' \in IF nm_script = "Trentino" THEN {"IT", "DE", "DOC"}
                  ELSE {"DOC"}
  /\ nm_pdf_ok' \in IF nm_script = "Lazio" THEN BOOLEAN ELSE {TRUE}
  /\ nm_pc' = "scraped"
  /\ UNCHANGED <<nm_script, nm_record, nm_filename, nm_count>>
  /\ UNCHANGED notNm

\* Trentino 184-211, Aosta 322-335 and 234-236, Lazio 237-263: the file is
\* stored under its name and the record of the law is added
NmStore ==
  /\ nm_pc = "scraped"
  /\ nm_record' =
       CASE nm_script = "Trentino" -> TaaRecord(nm_number, nm_date, nm_year)
         [] nm_script = "Aosta" -> AoRecord(nm_number, nm_date)
         [] OTHER -> LazRecord(nm_number, nm_date)
  /\ nm_filename' =
       CASE nm_script = "Trentino" ->
              TaaFilename(nm_number, nm_date, nm_year, nm_type)
         [] nm_script = "Aosta" -> AoFilename(nm_number, nm_date, nm_id)
         [] OTHER -> LazFilename(nm_number, nm_date, nm_id, nm_pdf_ok)
  /\ nm_pc' = "stored"
  /\ UNCHANGED <<nm_script, nm_number, nm_date, nm_year, nm_id, nm_type,
                 nm_pdf_ok, nm_count>>
  /\ UNCHANGED notNm

\* the script goes on to the next law
NmNextLaw ==
  /\ nm_pc = "stored"
  /\ nm_count < NmLaws
  /\ nm_count' = nm_count + 1
  /\ nm_pc' = "idle"
  /\ nm_number' = 0 /\ nm_date' = 0 /\ nm_year' = 0 /\ nm_id' = 1
  /\ nm_type' = "DOC" /\ nm_pdf_ok' = TRUE
  /\ nm_record' = <<>> /\ nm_filename' = <<>>
  /\ UNCHANGED nm_script
  /\ UNCHANGED notNm

NextNames ==
  \/ NmScrape
  \/ NmStore
  \/ NmNextLaw

(***************************************************************************)
(* Marche/Marche.py                                                        *)
(***************************************************************************)
MarWorkers == 1 .. Mar_WORKERS
MarLawIds == 1 .. MarPuts
MarNoStats == [downloaded |-> 0, failed |-> 0, skipped |-> 0]

MarIdle ==
  /\ mar_pc = "off" /\ mar_started = 0
  /\ mar_worker = [w \in MarWorkers |-> "off"]
  /\ mar_law = [w \in MarWorkers |-> 0]
  /\ mar_reg = [w \in MarWorkers |-> 0]
  /\ mar_queue = <<>> /\ mar_unfinished = 0 /\ mar_stop_signal = FALSE
  /\ mar_path = [k \in MarLawIds |-> 0] /\ mar_put = 0
  /\ mar_all_rows = <<>> /\ mar_excel = <<>>
  /\ mar_stats = MarNoStats
  /\ mar_taken = [k \in MarLawIds |-> 0]
  /\ mar_acked = [k \in MarLawIds |-> 0]
  /\ mar_files = {}
  /\ mar_writers = [p \in 1 .. MarPaths |-> {}]

\* lines 30-38: the module globals; PDFs of an earlier run may be on disk
MarInit ==
  /\ mar_pc = "main" /\ mar_started = 0
  /\ mar_worker = [w \in MarWorkers |-> "off"]
  /\ mar_law = [w \in MarWorkers |-> 0]
  /\ mar_reg = [w \in MarWorkers |-> 0]
  /\ mar_queue = <<>> /\ mar_unfinished = 0 /\ mar_stop_signal = FALSE
  /\ mar_path = [k \in MarLawIds |-> 0] /\ mar_put = 0
  /\ mar_all_rows = <<>> /\ mar_excel = <<>>
  /\ mar_stats = MarNoStats
  /\ mar_taken = [k \in MarLawIds |-> 0]
  /\ mar_acked = [k \in MarLawIds |-> 0]
  /\ mar_files \in SUBSET (1 .. MarPaths)
  /\ mar_writers = [p \in 1 .. MarPaths |-> {}]

\* lines 107-118: save_excel; a locked file or another error leaves the
\* spreadsheet as it was.  drop_duplicates keeps the first row of each file.
MarDropDuplicates(rows) ==
  LET keep(i) == \A j \in 1 .. i - 1 : rows[j] # rows[i]
      F[i \in 0 .. Len(rows)] ==
        IF i = 0 THEN <<>>
        ELSE IF keep(i) THEN Append(F[i - 1], rows[i]) ELSE F[i - 1]
  IN F[Len(rows)]

MarSaveExcel(rows, ok) ==
  IF rows = <<>> \/ ~ok THEN mar_excel ELSE MarDropDuplicates(rows)

\* lines 204-214: the start page is requested; when the request raises main
\* returns
MarMain ==
  /\ mar_pc = "main"
  /\ \/ mar_pc' = "spawn"
     \/ mar_pc' = "done"
  /\ UNCHANGED <<mar_started, mar_worker, mar_law, mar_reg, mar_queue,
                 mar_unfinished, mar_stop_signal, mar_path, mar_put,
                 mar_all_rows, mar_excel, mar_files, mar_stats, mar_taken,
                 mar_acked,
                 mar_writers>>
  /\ UNCHANGED notMar

\* lines 216-222: one worker thread is started; after the last one main goes
\* on to the categories
MarSpawn ==
  /\ mar_pc = "spawn"
  /\ IF mar_started < Mar_WORKERS
       THEN /\ mar_started' = mar_started + 1
            /\ mar_worker' = [mar_worker EXCEPT ![mar_started + 1] = "driver"]
            /\ UNCHANGED mar_pc
       ELSE /\ mar_pc' = "scrape"
            /\ UNCHANGED <<mar_started, mar_worker>>
  /\ UNCHANGED <<mar_law, mar_reg, mar_queue, mar_unfinished, mar_stop_signal,
                 mar_path, mar_put, mar_all_rows, mar_excel, mar_files,
                 mar_stats, mar_taken, mar_acked,
                 mar_writers>>
  /\ UNCHANGED notMar

\* lines 184-196: process_category found a law: the row is appended, the law
\* is put on the queue and every Mar_SAVE_EVERY rows the spreadsheet is saved
MarPutLaw ==
  /\ mar_pc = "scrape"
  /\ mar_put < MarPuts
  /\ \E p \in 1 .. MarPaths, ok \in BOOLEAN :
       /\ mar_path' = [mar_path EXCEPT ![mar_put + 1] = p]
       /\ mar_all_rows' = Append(mar_all_rows, p)
       /\ mar_excel' = IF Len(mar_all_rows') % Mar_SAVE_EVERY = 0
                         THEN MarSaveExcel(mar_all_rows', ok)
                         ELSE mar_excel
  /\ mar_put' = mar_put + 1
  /\ mar_queue' = Append(mar_queue, mar_put + 1)
  /\ mar_unfinished' = mar_unfinished + 1
  /\ UNCHANGED <<mar_pc, mar_started, mar_worker, mar_law, mar_reg,
                 mar_stop_signal, mar_files, mar_stats, mar_taken, mar_acked,
                 mar_writers>>
  /\ UNCHANGED notMar

\* lines 226-233: the last category is done
MarScrapeEnd ==
  /\ mar_pc = "scrape"
  /\ mar_pc' = "join"
  /\ UNCHANGED <<mar_started, mar_worker, mar_law, mar_reg, mar_queue,
                 mar_unfinished, mar_stop_signal, mar_path, mar_put,
                 mar_all_rows, mar_excel, mar_files, mar_stats, mar_taken,
                 mar_acked,
                 mar_writers>>
  /\ UNCHANGED notMar

\* lines 234-236: download_queue.join() returns when every put was answered
\* by a task_done; then stop_signal is set
MarJoin ==
  /\ mar_pc = "join"
  /\ mar_unfinished = 0
  /\ mar_stop_signal' = TRUE
  /\ mar_pc' = "join_threads"
  /\ UNCHANGED <<mar_started, mar_worker, mar_law, mar_reg, mar_queue,
                 mar_unfinished, mar_path, mar_put, mar_all_rows, mar_excel,
                 mar_files, mar_stats, mar_taken, mar_acked,
                 mar_writers>>
  /\ UNCHANGED notMar

\* a thread that has ended: by the return of print_pdf_worker or by the
\* exception that left it
MarEnded(w) == mar_worker[w] \in {"exited", "died"}

\* lines 238-239: t.join() for every thread
MarJoinThreads ==
  /\ mar_pc = "join_threads"
  /\ \A w \in MarWorkers : MarEnded(w)
  /\ mar_pc' = "save"
  /\ UNCHANGED <<mar_started, mar_worker, mar_law, mar_reg, mar_queue,
                 mar_unfinished, mar_stop_signal, mar_path, mar_put,
                 mar_all_rows, mar_excel, mar_files, mar_stats, mar_taken,
                 mar_acked,
                 mar_writers>>
  /\ UNCHANGED notMar

\* lines 241-256: the final save_excel (it swallows its own errors, so the
\* retry loop ends at the first pass) and the statistics
MarFinalSave ==
  /\ mar_pc = "save"
  /\ \E ok \in BOOLEAN : mar_excel' = MarSaveExcel(mar_all_rows, ok)
  /\ mar_pc' = "done"
  /\ UNCHANGED <<mar_started, mar_worker, mar_law, mar_reg, mar_queue,
                 mar_unfinished, mar_stop_signal, mar_path, mar_put,
                 mar_all_rows, mar_files, mar_stats, mar_taken, mar_acked,
                 mar_writers>>
  /\ UNCHANGED notMar

\* line 126: driver = chrome_driver(), outside every try: when Chrome or
\* its driver cannot be started the exception ends the thread
MarDriver(w) ==
  /\ mar_worker[w] = "driver"
  /\ \/ mar_worker' = [mar_worker EXCEPT ![w] = "get"]
     \/ mar_worker' = [mar_worker EXCEPT ![w] = "died"]
  /\ UNCHANGED <<mar_pc, mar_started, mar_law, mar_reg, mar_queue,
                 mar_unfinished, mar_stop_signal, mar_path, mar_put,
                 mar_all_rows, mar_excel, mar_files, mar_stats, mar_taken,
                 mar_acked,
                 mar_writers>>
  /\ UNCHANGED notMar

\* lines 129-130: download_queue.get returns the first law of the queue
MarGet(w) ==
  /\ mar_worker[w] = "get"
  /\ mar_queue # <<>>
  /\ mar_law' = [mar_law EXCEPT ![w] = Head(mar_queue)]
  /\ mar_taken' = [mar_taken EXCEPT ![Head(mar_queue)] = @ + 1]
  /\ mar_queue' = Tail(mar_queue)
  /\ mar_worker' = [mar_worker EXCEPT ![w] = "exists"]
  /\ UNCHANGED <<mar_pc, mar_started, mar_reg, mar_unfinished,
                 mar_stop_signal, mar_path, mar_put, mar_all_rows, mar_excel,
                 mar_files, mar_stats, mar_acked,
                 mar_writers>>
  /\ UNCHANGED notMar

\* lines 130-134: get timed out on the empty queue; the loop is left when
\* stop_signal is set and goes round otherwise
MarGetTimeout(w) ==
  /\ mar_worker[w] = "get"
  /\ mar_queue = <<>>
  /\ mar_worker' = [mar_worker EXCEPT
                      ![w] = IF mar_stop_signal THEN "quit" ELSE "get"]
  /\ UNCHANGED <<mar_pc, mar_started, mar_law, mar_reg, mar_queue,
                 mar_unfinished, mar_stop_signal, mar_path, mar_put,
                 mar_all_rows, mar_excel, mar_files, mar_stats, mar_taken,
                 mar_acked,
                 mar_writers>>
  /\ UNCHANGED notMar

\* line 136: if os.path.exists(law["path"])
MarExists(w) ==
  /\ mar_worker[w] = "exists"
  /\ mar_worker' = [mar_worker EXCEPT
                      ![w] = IF mar_path[mar_law[w]] \in mar_files
                               THEN "skipped_load" ELSE "print"]
  /\ UNCHANGED <<mar_pc, mar_started, mar_law, mar_reg, mar_queue,
                 mar_unfinished, mar_stop_signal, mar_path, mar_put,
                 mar_all_rows, mar_excel, mar_files, mar_stats, mar_taken,
                 mar_acked,
                 mar_writers>>
  /\ UNCHANGED notMar

\* lines 142-149: the page is loaded and printed; an exception leads to the
\* except branch
MarPrint(w) ==
  /\ mar_worker[w] = "print"
  /\ \/ mar_worker' = [mar_worker EXCEPT ![w] = "write"]
     \/ mar_worker' = [mar_worker EXCEPT ![w] = "failed_load"]
  /\ UNCHANGED <<mar_pc, mar_started, mar_law, mar_reg, mar_queue,
                 mar_unfinished, mar_stop_signal, mar_path, mar_put,
                 mar_all_rows, mar_excel, mar_files, mar_stats, mar_taken,
                 mar_acked,
                 mar_writers>>
  /\ UNCHANGED notMar

\* lines 151-152: the PDF is written (open creates the file even when the
\* write after it raises)
MarWrite(w) ==
  /\ mar_worker[w] = "write"
  /\ mar_files' = mar_files \cup {mar_path[mar_law[w]]}
  /\ mar_writers' = [mar_writers EXCEPT ![mar_path[mar_law[w]]] = @ \cup {w}]
  /\ \/ mar_worker' = [mar_worker EXCEPT ![w] = "downloaded_load"]
     \/ mar_worker' = [mar_worker EXCEPT ![w] = "failed_load"]
  /\ UNCHANGED <<mar_pc, mar_started, mar_law, mar_reg, mar_queue,
                 mar_unfinished, mar_stop_signal, mar_path, mar_put,
                 mar_all_rows, mar_excel, mar_stats, mar_taken, mar_acked>>
  /\ UNCHANGED notMar

MarCounterOf(pos) ==
  IF pos \in {"skipped_load", "skipped_store"} THEN "skipped"
  ELSE IF pos \in {"failed_load", "failed_store"} THEN "failed"
  ELSE "downloaded"

\* lines 137, 154, 158: "counter += 1" reads the global ...
MarLoad(w) ==
  /\ mar_worker[w] \in {"skipped_load", "failed_load", "downloaded_load"}
  /\ mar_reg' = [mar_reg EXCEPT ![w] = mar_stats[MarCounterOf(mar_worker[w])]]
  /\ mar_worker' = [mar_worker EXCEPT
                      ![w] = IF @ = "skipped_load" THEN "skipped_store"
                             ELSE IF @ = "failed_load" THEN "failed_store"
                             ELSE "downloaded_store"]
  /\ UNCHANGED <<mar_pc, mar_started, mar_law, mar_queue, mar_unfinished,
                 mar_stop_signal, mar_path, mar_put, mar_all_rows, mar_excel,
                 mar_files, mar_stats, mar_taken, mar_acked,
                 mar_writers>>
  /\ UNCHANGED notMar

\* ... and stores the value it read plus one
MarStore(w) ==
  /\ mar_worker[w] \in {"skipped_store", "failed_store", "downloaded_store"}
  /\ mar_stats' = [mar_stats EXCEPT
                     ![MarCounterOf(mar_worker[w])] = mar_reg[w] + 1]
  /\ mar_reg' = [mar_reg EXCEPT ![w] = 0]
  /\ mar_worker' = [mar_worker EXCEPT ![w] = "task_done"]
  /\ UNCHANGED <<mar_pc, mar_started, mar_law, mar_queue, mar_unfinished,
                 mar_stop_signal, mar_path, mar_put, mar_all_rows, mar_excel,
                 mar_files, mar_taken, mar_acked,
                 mar_writers>>
  /\ UNCHANGED notMar

\* lines 139 and 161: download_queue.task_done(), then the loop goes round
MarTaskDone(w) ==
  /\ mar_worker[w] = "task_done"
  /\ mar_unfinished' = mar_unfinished - 1
  /\ mar_acked' = [mar_acked EXCEPT ![mar_law[w]] = @ + 1]
  /\ mar_law' = [mar_law EXCEPT ![w] = 0]
  /\ mar_worker' = [mar_worker EXCEPT ![w] = "get"]
  /\ UNCHANGED <<mar_pc, mar_started, mar_reg, mar_queue, mar_stop_signal,
                 mar_path, mar_put, mar_all_rows, mar_excel, mar_files,
                 mar_stats, mar_taken,
                 mar_writers>>
  /\ UNCHANGED notMar

\* line 163: driver.quit() and the thread ends
MarQuit(w) ==
  /\ mar_worker[w] = "quit"
  /\ mar_worker' = [mar_worker EXCEPT ![w] = "exited"]
  /\ UNCHANGED <<mar_pc, mar_started, mar_law, mar_reg, mar_queue,
                 mar_unfinished, mar_stop_signal, mar_path, mar_put,
                 mar_all_rows, mar_excel, mar_files, mar_stats, mar_taken,
                 mar_acked,
                 mar_writers>>
  /\ UNCHANGED notMar

\* the steps of main
MarMainStep ==
  \/ MarMain
  \/ MarSpawn
  \/ MarPutLaw
  \/ MarScrapeEnd
  \/ MarJoin
  \/ MarJoinThreads
  \/ MarFinalSave

\* the steps of worker thread w
MarWorkerStep(w) ==
  \/ MarDriver(w)
  \/ MarGet(w)
  \/ MarGetTimeout(w)
  \/ MarExists(w)
  \/ MarPrint(w)
  \/ MarWrite(w)
  \/ MarLoad(w)
  \/ MarStore(w)
  \/ MarTaskDone(w)
  \/ MarQuit(w)

NextMarche ==
  \/ MarMain
  \/ MarSpawn
  \/ MarPutLaw
  \/ MarScrapeEnd
  \/ MarJoin
  \/ MarJoinThreads
  \/ MarFinalSave
  \/ \E w \in MarWorkers : MarDriver(w)
  \/ \E w \in MarWorkers : MarGet(w)
  \/ \E w \in MarWorkers : MarGetTimeout(w)
  \/ \E w \in MarWorkers : MarExists(w)
  \/ \E w \in MarWorkers : MarPrint(w)
  \/ \E w \in MarWorkers : MarWrite(w)
  \/ \E w \in MarWorkers : MarLoad(w)
  \/ \E w \in MarWorkers : MarStore(w)
  \/ \E w \in MarWorkers : MarTaskDone(w)
  \/ \E w \in MarWorkers : MarQuit(w)

(***************************************************************************)
(* Campania/Campania.py: the worker threads and the state file.            *)
(* process_law from its start to its return, with save_state() taken       *)
(* statement by statement: open(STATE_FILE, "w"), json.dump, and the       *)
(* close at the end of the with block.                                     *)
(***************************************************************************)
CsIds == 1 .. CsLaws

\* json.dump(state, f): the document of a list of ids, as tokens: 0 is the
\* opening part up to the bracket of the list, -1 the closing part, and each
\* id is a token of its own
CsJsonDoc(ids) == <<0>> \o ids \o <<-1>>

\* json.load accepts the content: the opening part, ids, the closing part,
\* and nothing after it
CsIsJson(content) ==
  /\ Len(content) >= 2
  /\ content[1] = 0
  /\ content[Len(content)] = -1
  /\ \A k \in 2 .. Len(content) - 1 : content[k] \in CsIds

\* the ids json.load returns for a content it accepts
CsLoadIds(content) == {content[k] : k \in 2 .. Len(content) - 1}

\* the file object writes its buffer at its own offset, which is 0 because
\* nothing was written through it before; the bytes already in the file
\* beyond the written ones stay
CsWriteAtStart(content, buf) ==
  buf \o SubSeq(content, Len(buf) + 1, Len(content))

\* the lists of distinct ids a state file of an earlier run can hold
CsIdLists ==
  {l \in UNION {[1 .. n -> CsIds] : n \in 0 .. CsLaws} :
     \A a, b \in 1 .. Len(l) : l[a] = l[b] => a = b}

CsIdle ==
  /\ cs_task = [i \in CsIds |-> "off"]
  /\ cs_done_ids = <<>>
  /\ cs_buf = [i \in CsIds |-> <<>>]
  /\ cs_file_exists = FALSE /\ cs_file = <<>> /\ cs_pdfs = {}

\* lines 49-53 and 230-231: state is loaded from the file an earlier run
\* left (or starts empty) and one process_law call per link is submitted
CsInit ==
  /\ cs_task = [i \in CsIds |-> "queued"]
  /\ \E l \in CsIdLists :
       /\ cs_done_ids = l
       /\ cs_file_exists = (l # <<>>)
       /\ cs_file = IF l = <<>> THEN <<>> ELSE CsJsonDoc(l)
  /\ cs_buf = [i \in CsIds |-> <<>>]
  /\ cs_pdfs = {}

CsRunning == {i \in CsIds : cs_task[i] \in {"fetch", "append", "open", "dump", "close"}}

\* a pool thread is free and the calls submitted before this one have started
CsCanStart(i) ==
  /\ cs_task[i] = "queued"
  /\ Cardinality(CsRunning) < Camp_MAX_WORKERS
  /\ \A j \in CsIds : cs_task[j] = "queued" => i <= j

\* lines 148-158: process_law up to the test of done_ids
CsCheckDone(i) ==
  /\ CsCanStart(i)
  /\ cs_task' = [cs_task EXCEPT
                   ![i] = IF i \in SeqToSet(cs_done_ids) THEN "skipped" ELSE "fetch"]
  /\ UNCHANGED <<cs_done_ids, cs_buf, cs_file_exists, cs_file, cs_pdfs>>
  /\ UNCHANGED notCs

\* lines 160-199: the detail page and the PDF are fetched; None is returned
\* when a field is missing, a request raises or every download attempt fails
CsFetch(i) ==
  /\ cs_task[i] = "fetch"
  /\ \/ /\ cs_pdfs' = cs_pdfs \cup {i}
        /\ cs_task' = [cs_task EXCEPT ![i] = "append"]
     \/ /\ cs_task' = [cs_task EXCEPT ![i] = "none_ret"]
        /\ UNCHANGED cs_pdfs
  /\ UNCHANGED <<cs_done_ids, cs_buf, cs_file_exists, cs_file>>
  /\ UNCHANGED notCs

\* line 201: state["done_ids"].append(law_id)
CsAppend(i) ==
  /\ cs_task[i] = "append"
  /\ cs_done_ids' = Append(cs_done_ids, i)
  /\ cs_task' = [cs_task EXCEPT ![i] = "open"]
  /\ UNCHANGED <<cs_buf, cs_file_exists, cs_file, cs_pdfs>>
  /\ UNCHANGED notCs

\* line 56: open(STATE_FILE, "w") creates the file or truncates it; when it
\* raises, the except branch of process_law returns None
CsOpen(i) ==
  /\ cs_task[i] = "open"
  /\ \/ /\ cs_file_exists' = TRUE
        /\ cs_file' = <<>>
        /\ cs_task' = [cs_task EXCEPT ![i] = "dump"]
     \/ /\ cs_task' = [cs_task EXCEPT ![i] = "save_failed"]
        /\ UNCHANGED <<cs_file_exists, cs_file>>
  /\ UNCHANGED <<cs_done_ids, cs_buf, cs_pdfs>>
  /\ UNCHANGED notCs

\* line 57: json.dump writes the document of the list as it is now into the
\* buffer of the file object
CsDump(i) ==
  /\ cs_task[i] = "dump"
  /\ cs_buf' = [cs_buf EXCEPT ![i] = CsJsonDoc(cs_done_ids)]
  /\ cs_task' = [cs_task EXCEPT ![i] = "close"]
  /\ UNCHANGED <<cs_done_ids, cs_file_exists, cs_file, cs_pdfs>>
  /\ UNCHANGED notCs

\* end of the with block at line 57: the buffer is written and the file is
\* closed; process_law returns the row (lines 204-210)
CsClose(i) ==
  /\ cs_task[i] = "close"
  /\ cs_file' = CsWriteAtStart(cs_file, cs_buf[i])
  /\ cs_buf' = [cs_buf EXCEPT ![i] = <<>>]
  /\ cs_task' = [cs_task EXCEPT ![i] = "row_ret"]
  /\ UNCHANGED <<cs_done_ids, cs_file_exists, cs_pdfs>>
  /\ UNCHANGED notCs

\* every process_law call has returned
CsAllReturned ==
  \A i \in CsIds : cs_task[i] \in {"skipped", "none_ret", "row_ret", "save_failed"}

NextCampaniaState ==
  \/ \E i \in CsIds : CsCheckDone(i)
  \/ \E i \in CsIds : CsFetch(i)
  \/ \E i \in CsIds : CsAppend(i)
  \/ \E i \in CsIds : CsOpen(i)
  \/ \E i \in CsIds : CsDump(i)
  \/ \E i \in CsIds : CsClose(i)

(***************************************************************************)
(* Molise/Molise.py                                                        *)
(***************************************************************************)
MolIds == 1 .. MolLaws
MolFiles == 1 .. MolNames

MolIdle ==
  /\ mol_pc = "off" /\ mol_runs = 0
  /\ mol_filename = [l \in MolIds |-> 1]
  /\ mol_law_queue = <<>> /\ mol_idx = 1
  /\ mol_df = <<>> /\ mol_excel = <<>> /\ mol_files = {}
  /\ mol_skipped = 0
  /\ mol_rendered = [f \in MolFiles |-> 0]

\* before the first start: empty output directory, no spreadsheet.  Two
\* laws can have the same filename (line 336).
MolInit ==
  /\ mol_pc = "dead" /\ mol_runs = 0
  /\ mol_filename \in [MolIds -> MolFiles]
  /\ mol_law_queue = <<>> /\ mol_idx = 1
  /\ mol_df = <<>> /\ mol_excel = <<>> /\ mol_files = {}
  /\ mol_skipped = 0
  /\ mol_rendered = [f \in MolFiles |-> 0]

\* lines 235-256: the spreadsheet is loaded into df (or df starts empty)
MolStart ==
  /\ mol_pc \in {"dead", "done"}
  /\ mol_runs < MolMaxRuns
  /\ mol_runs' = mol_runs + 1
  /\ mol_df' = mol_excel
  /\ mol_law_queue' = <<>> /\ mol_idx' = 1 /\ mol_skipped' = 0
  /\ mol_pc' = "collect"
  /\ UNCHANGED <<mol_filename, mol_excel, mol_files, mol_rendered>>
  /\ UNCHANGED notMol

\* the law lists phase 1 can end with: the listed laws in order, a year that
\* fails to load leaving its laws out
MolQueues ==
  {q \in UNION {[1 .. n -> MolIds] : n \in 0 .. MolLaws} :
     \A a, b \in 1 .. Len(q) : a < b => q[a] < q[b]}

\* lines 261-306: phase 1 collects the law links of every year
MolCollect ==
  /\ mol_pc = "collect"
  /\ \E q \in MolQueues : mol_law_queue' = q
  /\ mol_idx' = 1
  /\ mol_pc' = "goto"
  /\ UNCHANGED <<mol_runs, mol_filename, mol_df, mol_excel, mol_files,
                 mol_skipped, mol_rendered>>
  /\ UNCHANGED notMol

\* lines 308-318: the next law page is loaded; when that raises the loop
\* goes on with the next law
MolGoto ==
  /\ mol_pc = "goto"
  /\ mol_idx <= Len(mol_law_queue)
  /\ \/ /\ mol_pc' = "exists"
        /\ UNCHANGED mol_idx
     \/ /\ mol_idx' = mol_idx + 1
        /\ UNCHANGED mol_pc
  /\ UNCHANGED <<mol_runs, mol_filename, mol_law_queue, mol_df, mol_excel,
                 mol_files, mol_skipped, mol_rendered>>
  /\ UNCHANGED notMol

\* line 340: if os.path.exists(filepath)
MolExists(f) == f \in mol_files

\* lines 321-342: the data are extracted, the filename is built and a law
\* whose file exists is skipped
MolCheck ==
  /\ mol_pc = "exists"
  /\ IF MolExists(mol_filename[mol_law_queue[mol_idx]])
       THEN /\ mol_skipped' = mol_skipped + 1
            /\ mol_idx' = mol_idx + 1
            /\ mol_pc' = "goto"
       ELSE /\ mol_pc' = "pdf"
            /\ UNCHANGED <<mol_skipped, mol_idx>>
  /\ UNCHANGED <<mol_runs, mol_filename, mol_law_queue, mol_df, mol_excel,
                 mol_files, mol_rendered>>
  /\ UNCHANGED notMol

\* lines 345-353: page.pdf saves the file; when it raises the loop goes on
\* with the next law
MolPdf ==
  /\ mol_pc = "pdf"
  /\ LET f == mol_filename[mol_law_queue[mol_idx]] IN
       \/ /\ mol_files' = mol_files \cup {f}
          /\ mol_rendered' = [mol_rendered EXCEPT ![f] = @ + 1]
          /\ mol_pc' = "row"
          /\ UNCHANGED mol_idx
       \/ /\ mol_idx' = mol_idx + 1
          /\ mol_pc' = "goto"
          /\ UNCHANGED <<mol_files, mol_rendered>>
  /\ UNCHANGED <<mol_runs, mol_filename, mol_law_queue, mol_df, mol_excel,
                 mol_skipped>>
  /\ UNCHANGED notMol

\* lines 356-369: the row is added to df and the whole df is written to the
\* spreadsheet; a failed write is only reported
MolAddRow ==
  /\ mol_pc = "row"
  /\ mol_df' = Append(mol_df, mol_filename[mol_law_queue[mol_idx]])
  /\ \/ mol_excel' = mol_df'
     \/ UNCHANGED mol_excel
  /\ mol_idx' = mol_idx + 1
  /\ mol_pc' = "goto"
  /\ UNCHANGED <<mol_runs, mol_filename, mol_law_queue, mol_files,
                 mol_skipped, mol_rendered>>
  /\ UNCHANGED notMol

\* lines 371-387: the queue is exhausted
MolFinish ==
  /\ mol_pc = "goto"
  /\ mol_idx > Len(mol_law_queue)
  /\ mol_pc' = "done"
  /\ UNCHANGED <<mol_runs, mol_filename, mol_law_queue, mol_idx, mol_df,
                 mol_excel, mol_files, mol_skipped, mol_rendered>>
  /\ UNCHANGED notMol

\* the process is interrupted: memory is lost, files stay
MolInterrupt ==
  /\ mol_pc \in {"collect", "goto", "exists", "pdf", "row"}
  /\ mol_pc' = "dead"
  /\ mol_law_queue' = <<>> /\ mol_idx' = 1 /\ mol_df' = <<>>
  /\ mol_skipped' = 0
  /\ UNCHANGED <<mol_runs, mol_filename, mol_excel, mol_files, mol_rendered>>
  /\ UNCHANGED notMol

NextMolise ==
  \/ MolStart
  \/ MolCollect
  \/ MolGoto
  \/ MolCheck
  \/ MolPdf
  \/ MolAddRow
  \/ MolFinish
  \/ MolInterrupt

(***************************************************************************)
(* Piemonte/Piemonte.py: process_law_worker                                *)
(***************************************************************************)
PieSizes == (Pie_VALID_SIZE - PieSizeSpread) .. (Pie_VALID_SIZE + PieSizeSpread)

PieIdle ==
  /\ pie_pc = "off" /\ pie_attempt = 0 /\ pie_status = "Failed"
  /\ pie_res = "None" /\ pie_driver = "None" /\ pie_leaving = FALSE
  /\ pie_filesize = 0 /\ pie_log = <<>>

\* lines 245-247: the locals at the start of a call; a file of an earlier
\* run may be at the path
PieInit ==
  /\ pie_pc = "loop" /\ pie_attempt = 0 /\ pie_status = "Failed"
  /\ pie_res = "None" /\ pie_driver = "None" /\ pie_leaving = FALSE
  /\ pie_filesize \in {0} \cup PieSizes
  /\ pie_log = <<>>

PieValid_AtLeast(size) == size >= Pie_VALID_SIZE

\* line 308: os.path.getsize(filepath) > 2000
PieValid(size) == size > Pie_VALID_SIZE

\* lines 249-250 and 331: the loop condition; driver = None
PieLoop ==
  /\ pie_pc = "loop"
  /\ IF pie_attempt < Pie_MAX_RETRIES
       THEN /\ pie_pc' = "setup"
            /\ pie_driver' = "None"
       ELSE /\ pie_pc' = "returned"
            /\ UNCHANGED pie_driver
  /\ UNCHANGED <<pie_attempt, pie_status, pie_res, pie_leaving, pie_filesize,
                 pie_log>>
  /\ UNCHANGED notPie

\* lines 252-253: attempt += 1; driver = setup_driver(), which can raise
PieSetup ==
  /\ pie_pc = "setup"
  /\ pie_attempt' = pie_attempt + 1
  /\ pie_log' = Append(pie_log, [abrogated |-> FALSE, size |-> 0])
  /\ \/ /\ pie_driver' = "live"
        /\ pie_pc' = "load"
        /\ UNCHANGED pie_status
     \/ /\ pie_status' = "Error"
        /\ pie_pc' = "finally"
        /\ UNCHANGED pie_driver
  /\ UNCHANGED <<pie_res, pie_leaving, pie_filesize>>
  /\ UNCHANGED notPie

\* lines 254-281: the page is loaded and parsed.  A request that raises
\* leads to the except branch; a law found abrogated sets the status, quits
\* the browser and returns
PieLoad ==
  /\ pie_pc = "load"
  /\ \/ /\ pie_status' = "Error"
        /\ pie_pc' = "finally"
        /\ UNCHANGED <<pie_driver, pie_leaving, pie_log>>
     \/ /\ pie_status' = "Skipped (Abrogated)"
        /\ pie_driver' = "quit"
        /\ pie_leaving' = TRUE
        /\ pie_log' = [pie_log EXCEPT ![pie_attempt].abrogated = TRUE]
        /\ pie_pc' = "finally"
     \/ /\ pie_pc' = "print"
        /\ UNCHANGED <<pie_status, pie_driver, pie_leaving, pie_log>>
  /\ UNCHANGED <<pie_attempt, pie_res, pie_filesize>>
  /\ UNCHANGED notPie

\* lines 284-305 and 320-325: the page is printed and the PDF is written;
\* when the print raises, the exception is raised again and the outer
\* except sets the status
PiePrint ==
  /\ pie_pc = "print"
  /\ \/ \E size \in PieSizes :
          /\ pie_filesize' = size
          /\ pie_log' = [pie_log EXCEPT ![pie_attempt].size = size]
          /\ pie_pc' = "validate"
          /\ UNCHANGED pie_status
     \/ /\ pie_status' = "Error"
        /\ pie_pc' = "finally"
        /\ UNCHANGED <<pie_filesize, pie_log>>
  /\ UNCHANGED <<pie_attempt, pie_res, pie_driver, pie_leaving>>
  /\ UNCHANGED notPie

\* lines 308-319: a file that is large enough ends the loop with a record
PieValidate ==
  /\ pie_pc = "validate"
  /\ IF PieValid(pie_filesize)
       THEN /\ pie_status' = "Downloaded"
            /\ pie_res' = "record"
            /\ pie_leaving' = TRUE
       ELSE /\ pie_status' = "Failed (Empty)"
            /\ UNCHANGED <<pie_res, pie_leaving>>
  /\ pie_pc' = "finally"
  /\ UNCHANGED <<pie_attempt, pie_driver, pie_filesize, pie_log>>
  /\ UNCHANGED notPie

\* lines 327-331: the finally block quits the browser; after a break or a
\* return the function returns, otherwise the loop goes round
PieFinally ==
  /\ pie_pc = "finally"
  /\ pie_driver' = IF pie_driver = "None" THEN "None" ELSE "quit"
  /\ pie_pc' = IF pie_leaving THEN "returned" ELSE "loop"
  /\ UNCHANGED <<pie_attempt, pie_status, pie_res, pie_leaving, pie_filesize,
                 pie_log>>
  /\ UNCHANGED notPie

NextPiemonte ==
  \/ PieLoop
  \/ PieSetup
  \/ PieLoad
  \/ PiePrint
  \/ PieValidate
  \/ PieFinally

(***************************************************************************)
(* veneto/Veneto.py: the year loop and the page loop of main.  What the    *)
(* site answers (where a request lands, whether a page lists laws, where   *)
(* its "Successiva" link points) is chosen anew at every request.          *)
(***************************************************************************)
VenListingUrls == 1 .. VenUrls

VenIdle ==
  /\ ven_pc = "off" /\ ven_year = 1 /\ ven_driver_url = 1
  /\ ven_current_url = 0 /\ ven_visited_urls = {} /\ ven_processed = <<>>
  /\ ven_exit = "none"

\* lines 118-152: the years were found and the for loop starts
VenInit ==
  /\ ven_pc = "year" /\ ven_year = 1 /\ ven_driver_url \in VenListingUrls
  /\ ven_current_url = 0 /\ ven_visited_urls = {} /\ ven_processed = <<>>
  /\ ven_exit = "none"

\* lines 152-169: the year is selected by its button or by the fallback
\* URL, and visited_urls starts empty; a fallback request that raises ends
\* main through the finally block
VenSelectYear ==
  /\ ven_pc = "year"
  /\ ven_year <= VenYears
  /\ \/ /\ \E u \in VenListingUrls : ven_driver_url' = u
        /\ ven_visited_urls' = {}
        /\ ven_processed' = <<>>
        /\ ven_current_url' = 0
        /\ ven_exit' = "none"
        /\ ven_pc' = "top"
     \/ /\ ven_pc' = "crashed"
        /\ UNCHANGED <<ven_driver_url, ven_visited_urls, ven_processed,
                       ven_current_url, ven_exit>>
  /\ UNCHANGED ven_year
  /\ UNCHANGED notVen

VenVisited_Never(url) == FALSE

\* lines 173 and 255: url in visited_urls
VenVisited(url) == url \in ven_visited_urls

\* the page loop is left by a break: the next year is taken
VenBreak(reason) ==
  /\ ven_exit' = reason
  /\ ven_year' = ven_year + 1
  /\ ven_pc' = "year"

\* lines 172-176: current_url is read from the driver; a URL visited
\* before in this year ends the loop, a new one is added to visited_urls
VenTop ==
  /\ ven_pc = "top"
  /\ ven_current_url' = ven_driver_url
  /\ IF VenVisited(ven_driver_url)
       THEN /\ VenBreak("current visited")
            /\ UNCHANGED ven_visited_urls
       ELSE /\ ven_visited_urls' = ven_visited_urls \cup {ven_driver_url}
            /\ ven_pc' = "links"
            /\ UNCHANGED <<ven_year, ven_exit>>
  /\ UNCHANGED <<ven_driver_url, ven_processed>>
  /\ UNCHANGED notVen

\* lines 179-243: the law links of the page are collected; without links
\* the loop ends, otherwise every law is processed
VenProcessPage ==
  /\ ven_pc = "links"
  /\ \/ /\ VenBreak("no laws")
        /\ UNCHANGED ven_processed
     \/ /\ ven_processed' = Append(ven_processed, ven_current_url)
        /\ ven_pc' = "back"
        /\ UNCHANGED <<ven_year, ven_exit>>
  /\ UNCHANGED <<ven_driver_url, ven_current_url, ven_visited_urls>>
  /\ UNCHANGED notVen

\* lines 246-247: driver.get(current_url), outside the try of the
\* pagination: when it raises main ends through the finally block
VenBack ==
  /\ ven_pc = "back"
  /\ \/ /\ \E u \in VenListingUrls : ven_driver_url' = u
        /\ ven_pc' = "paginate"
     \/ /\ ven_pc' = "crashed"
        /\ UNCHANGED ven_driver_url
  /\ UNCHANGED <<ven_year, ven_current_url, ven_visited_urls, ven_processed,
                 ven_exit>>
  /\ UNCHANGED notVen

\* lines 249-268: the "Successiva" link.  next is the URL of its href, 0
\* when there is no such link and -1 when the href is a javascript: URL;
\* an exception in the block ends the loop as well
VenPaginate ==
  /\ ven_pc = "paginate"
  /\ \/ \E next \in VenListingUrls \cup {0, -1} :
          IF next = 0
            THEN /\ VenBreak("no Successiva")
                 /\ UNCHANGED ven_driver_url
          ELSE IF next # -1 /\ (VenVisited(next) \/ next = ven_current_url)
            THEN /\ VenBreak("next visited")
                 /\ UNCHANGED ven_driver_url
          ELSE IF next = -1
            THEN /\ VenBreak("no Successiva")
                 /\ UNCHANGED ven_driver_url
          ELSE /\ \E u \in VenListingUrls : ven_driver_url' = u
               /\ ven_pc' = "top"
               /\ UNCHANGED <<ven_year, ven_exit>>
     \/ /\ VenBreak("exception")
        /\ UNCHANGED ven_driver_url
  /\ UNCHANGED <<ven_current_url, ven_visited_urls, ven_processed>>
  /\ UNCHANGED notVen

\* lines 270-275: the last year is done
VenFinish ==
  /\ ven_pc = "year"
  /\ ven_year > VenYears
  /\ ven_pc' = "done"
  /\ UNCHANGED <<ven_year, ven_driver_url, ven_current_url, ven_visited_urls,
                 ven_processed, ven_exit>>
  /\ UNCHANGED notVen

NextVeneto ==
  \/ VenSelectYear
  \/ VenTop
  \/ VenProcessPage
  \/ VenBack
  \/ VenPaginate
  \/ VenFinish

(***************************************************************************)
(* emilia-romagna/Emilia-Romagna.py: the batch update of lines 184-193     *)
(* statement by statement, and a KeyboardInterrupt in the page loop        *)
(***************************************************************************)
EkIdle ==
  /\ em_stage = "list" /\ em_done_futures = {} /\ em_handling = 0

\* the variables of the other scripts
notEmEk == <<calVars, campVars, lomVars, pugVars, basVars, friVars, lazVars, artVars, aoVars, wkVars, nmVars, marVars, csVars, molVars, pieVars, venVars>>

\* line 186: done_futures lists the finished calls not yet marked processed
EmListDone ==
  /\ em_pc = "collect"
  /\ em_stage = "list"
  /\ em_done_futures' = {i \in EmIds : EmDone(i) /\ i \notin em_processed}
  /\ em_stage' = "loop"
  /\ UNCHANGED <<em_handling, emVars, notEmEk>>

\* the next future of done_futures, in the order of future_to_data
EmNextDone == CHOOSE i \in em_done_futures : \A j \in em_done_futures : i <= j

\* lines 188-192: the Status of the row is set and the row is marked
\* processed
EmMarkRow ==
  /\ em_pc = "collect"
  /\ em_stage = "loop"
  /\ em_handling = 0
  /\ em_done_futures # {}
  /\ em_handling' = EmNextDone
  /\ em_done_futures' = em_done_futures \ {EmNextDone}
  /\ em_processed' = em_processed \cup {EmNextDone}
  /\ UNCHANGED <<em_stage, em_pc, em_runs, em_page, em_task, em_files,
                 em_all_data, em_excel, em_requested, notEmEk>>

\* line 193: all_data.append(data)
EmAppendRow ==
  /\ em_pc = "collect"
  /\ em_handling # 0
  /\ em_all_data' = Append(em_all_data,
                           <<em_handling, EmStatus(em_task[em_handling])>>)
  /\ em_handling' = 0
  /\ UNCHANGED <<em_stage, em_done_futures, em_pc, em_runs, em_page, em_task,
                 em_processed, em_files, em_excel, em_requested, notEmEk>>

\* lines 195-212: the loop is through; the spreadsheet is written when due
\* and the next page is taken
EmRoundEnd ==
  /\ em_pc = "collect"
  /\ em_stage = "loop"
  /\ em_handling = 0
  /\ em_done_futures = {}
  /\ em_excel' = EmPeriodicSave(em_all_data)
  /\ em_page' = em_page + 1
  /\ em_pc' = "page"
  /\ em_stage' = "list"
  /\ UNCHANGED <<em_done_futures, em_handling, em_runs, em_task, em_processed,
                 em_files, em_all_data, em_requested, notEmEk>>

\* lines 214-218: KeyboardInterrupt is raised in main somewhere in the page
\* loop; the except branch leads to the final cleanup
EmKeyboardInterrupt ==
  /\ em_pc \in {"page", "collect"}
  /\ em_pc' = "cleanup"
  /\ em_stage' = "list" /\ em_done_futures' = {} /\ em_handling' = 0
  /\ UNCHANGED <<em_runs, em_page, em_task, em_processed, em_files,
                 em_all_data, em_excel, em_requested, notEmEk>>

NextEmiliaInterrupt ==
  \/ EmStart
  \/ EmSubmitPage
  \/ EmListDone
  \/ EmMarkRow
  \/ EmAppendRow
  \/ EmRoundEnd
  \/ EmLeaveLoop
  \/ EmKeyboardInterrupt
  \/ \E i \in EmIds : EmCheck(i)
  \/ \E i \in EmIds : EmGet(i)
  \/ \E i \in EmIds : EmCleanupTake(i)
  \/ EmFinalSave

(***************************************************************************)
(* Specifications: one script runs, the others are not started             *)
(***************************************************************************)
\* every script but s is in its not-started state
OnlyRuns(s) ==
  /\ IF s = "Calabria" THEN TRUE ELSE CalIdle
  /\ IF s = "Campania" THEN TRUE ELSE CampIdle
  /\ IF s = "Lombardy" THEN TRUE ELSE LomIdle
  /\ IF s = "Puglia" THEN TRUE ELSE PugIdle
  /\ IF s = "Emilia" THEN TRUE ELSE EmIdle
  /\ IF s = "Basilicata" THEN TRUE ELSE BasIdle
  /\ IF s = "Friuli" THEN TRUE ELSE FriIdle
  /\ IF s = "Lazio" THEN TRUE ELSE LazIdle
  /\ IF s = "Article" THEN TRUE ELSE ArtIdle
  /\ IF s = "Aosta" THEN TRUE ELSE AoIdle
  /\ IF s = "Workers" THEN TRUE ELSE WkIdle
  /\ IF s = "Names" THEN TRUE ELSE NmIdle
  /\ IF s = "Marche" THEN TRUE ELSE MarIdle
  /\ IF s = "CampaniaState" THEN TRUE ELSE CsIdle
  /\ IF s = "Molise" THEN TRUE ELSE MolIdle
  /\ IF s = "Piemonte" THEN TRUE ELSE PieIdle
  /\ IF s = "Veneto" THEN TRUE ELSE VenIdle
  /\ IF s = "EmiliaInterrupt" THEN TRUE ELSE EkIdle

InitCalabria == CalInit /\ OnlyRuns("Calabria")

SpecCalabria == InitCalabria /\ [][NextCalabria]_vars

InitCalabriaScan == CalScanInit /\ OnlyRuns("Calabria")

SpecCalabriaScan == InitCalabriaScan /\ [][NextCalabriaScan]_vars

InitCampania == CampInit /\ OnlyRuns("Campania")

SpecCampania == InitCampania /\ [][NextCampania]_vars

SpecCampaniaCollect == InitCampania /\ [][NextCampaniaCollect]_vars

InitLombardy == LomInit /\ OnlyRuns("Lombardy")

SpecLombardy == InitLombardy /\ [][NextLombardy]_vars

InitPuglia == PugInit /\ OnlyRuns("Puglia")

SpecPuglia == InitPuglia /\ [][NextPuglia]_vars

InitEmilia == EmInit /\ OnlyRuns("Emilia")

SpecEmilia == InitEmilia /\ [][NextEmilia]_vars

InitBasilicata == BasInit /\ OnlyRuns("Basilicata")

SpecBasilicata == InitBasilicata /\ [][NextBasilicata]_vars

InitFriuli == FriInit /\ OnlyRuns("Friuli")

\* the three scripts whose spreadsheet write the flush claim names
InitFlush == InitBasilicata \/ InitFriuli \/ InitCalabria

NextFlush == NextBasilicata \/ NextFriuli \/ NextCalabria

SpecFlush == InitFlush /\ [][NextFlush]_vars

InitLazio == LazInit /\ OnlyRuns("Lazio")

SpecLazio == InitLazio /\ [][NextLazio]_vars

InitArticle == ArtInit /\ OnlyRuns("Article")

SpecArticle == InitArticle /\ [][NextArticle]_vars

InitAosta == AoInit /\ OnlyRuns("Aosta")

SpecAosta == InitAosta /\ [][NextAosta]_vars

\* the scripts that open one page per law under a semaphore
InitFanOut == InitArticle \/ InitAosta

NextFanOut == NextArticle \/ NextAosta

SpecFanOut == InitFanOut /\ [][NextFanOut]_vars

InitWorkers == WkInit /\ OnlyRuns("Workers")

SpecWorkers == InitWorkers /\ [][NextWorkers]_vars

InitNames == NmInit /\ OnlyRuns("Names")

SpecNames == InitNames /\ [][NextNames]_vars

InitMarche == MarInit /\ OnlyRuns("Marche")

SpecMarche == InitMarche /\ [][NextMarche]_vars

\* the scheduler lets every thread that can take a step take one, and every
\* page load and print returns
SpecMarcheFair ==
  /\ SpecMarche
  /\ WF_vars(MarMainStep)
  /\ \A w \in MarWorkers : WF_vars(MarWorkerStep(w))

InitCampaniaState == CsInit /\ OnlyRuns("CampaniaState")

SpecCampaniaState == InitCampaniaState /\ [][NextCampaniaState]_vars

InitMolise == MolInit /\ OnlyRuns("Molise")

SpecMolise == InitMolise /\ [][NextMolise]_vars

InitPiemonte == PieInit /\ OnlyRuns("Piemonte")

SpecPiemonte == InitPiemonte /\ [][NextPiemonte]_vars

InitVeneto == VenInit /\ OnlyRuns("Veneto")

SpecVeneto == InitVeneto /\ [][NextVeneto]_vars

\* main is one thread: it takes its next step, and every request returns
SpecVenetoFair == SpecVeneto /\ WF_vars(NextVeneto)

\* Emilia-Romagna with the batch update taken statement by statement and
\* KeyboardInterrupt
SpecEmiliaInterrupt == InitEmilia /\ [][NextEmiliaInterrupt]_vars

\* the three scripts that test the target path before acting
InitExistenceCheck == InitLombardy \/ InitPuglia \/ InitEmilia

NextExistenceCheck == NextLombardy \/ NextPuglia \/ NextEmilia

SpecExistenceCheck == InitExistenceCheck /\ [][NextExistenceCheck]_vars

(***************************************************************************)
(* C1  Calabria resume.  A run issues no request for a year that was in    *)
(* done_years when the run loaded the progress file, and none for a key    *)
(* that is in done_keys; the progress file gets a new done year only when  *)
(* every future of that year was consumed and the year's records are the   *)
(* last rows of the spreadsheet.                                           *)
(***************************************************************************)
CalRowsWritten ==
  \/ cal_year_records = <<>>
  \/ /\ Len(cal_excel) >= Len(cal_year_records)
     /\ SubSeq(cal_excel, Len(cal_excel) - Len(cal_year_records) + 1,
               Len(cal_excel)) = cal_year_records

C1_ResumeStep ==
  /\ \A key \in cal_requested' \ cal_requested :
        /\ key[1] \notin cal_loaded_years
        /\ key \notin cal_done_keys
  /\ (cal_file_years' # cal_file_years) =>
        /\ cal_file_years' = cal_file_years \cup {cal_year}
        /\ DOMAIN cal_futures = {}
        /\ CalRowsWritten

C1_Resume == [][C1_ResumeStep]_vars

\* a second run started from the progress file of a completed first run,
\* skipped the done year and ended without a single request
C1_Witness ==
  /\ cal_runs = 2
  /\ cal_loaded_years = 1..CalYears
  /\ cal_pc = "done"
  /\ cal_requested = {}
  /\ cal_excel # <<>>

(***************************************************************************)
(* C2  Campania progress set.  A law id enters done_ids, and the state     *)
(* file is saved with it, only after the download of its PDF returned True *)
(* (the PDF is written).  A law whose id is in done_ids when process_law   *)
(* runs has no detail page and no PDF requested, is counted as skipped and *)
(* returns no row.                                                         *)
(***************************************************************************)
C2_DoneIdsStep ==
  /\ \A i \in camp_done_ids' \ camp_done_ids :
       /\ i \in camp_pdfs
       /\ camp_pc = "process" => (camp_task[i] = "downloaded" /\ i \in camp_dl)
  /\ \A i \in camp_file_ids' \ camp_file_ids :
       i \in camp_pdfs /\ i \in camp_dl
  /\ \A i \in (camp_fetched' \ camp_fetched) \cup (camp_dl' \ camp_dl) :
       i \notin camp_done_ids
  /\ \A i \in CampIds :
       (/\ camp_pc' = "process" /\ i \in camp_done_ids
        /\ camp_task[i] = "queued" /\ camp_task'[i] # "queued")
         => /\ camp_task'[i] = "skipped"
            /\ camp_stats'.skipped = camp_stats.skipped + 1
            /\ camp_fetched' = camp_fetched /\ camp_dl' = camp_dl
            /\ camp_pdfs' = camp_pdfs
  /\ \A i \in CampIds :
       (camp_pc' = "process" /\ camp_task[i] = "skipped" /\ camp_task'[i] # "skipped")
         => /\ camp_task'[i] = "taken"
            /\ camp_rows' = camp_rows /\ camp_excel' = camp_excel

C2_DoneIds == [][C2_DoneIdsStep]_vars

\* a second run skipped a law finished by the first and downloaded another
C2_Witness ==
  /\ camp_runs = 2
  /\ \E i, j \in CampIds :
       /\ camp_task[i] = "taken" /\ i \in camp_done_ids
       /\ i \notin camp_fetched /\ i \notin camp_dl
       /\ camp_stats.skipped = 1
       /\ j # i /\ j \in camp_dl /\ j \in camp_file_ids

(***************************************************************************)
(* C8  Campania link collection, as claimed: the page loop is left early   *)
(* only when three pages with consecutive page numbers were each fetched   *)
(* and found empty.                                                        *)
(***************************************************************************)
C8_StopOnConsecutivePages ==
  camp_broke => camp_consec >= Camp_EMPTY_LIMIT

(***************************************************************************)
(* C3  Existence check before acting (Lombardy process_law, the Puglia     *)
(* worker, Emilia-Romagna download_file).  A target file that exists is    *)
(* never written, replaced or deleted; a law whose target exists when it   *)
(* is tested has no download or PDF render and is reported as skipped.  A  *)
(* second run therefore keeps every file it finds; it may add the files    *)
(* the earlier run failed to store.                                        *)
(***************************************************************************)
C3_ExistingKeptStep ==
  /\ \A i \in LomIds :
       lom_files[i] # 0 =>
         /\ lom_files'[i] = lom_files[i]
         /\ i \in lom_dl' => i \in lom_dl
  /\ (lom_pc = "law" /\ lom_idx <= LomLaws /\ lom_files[lom_idx] # 0
        /\ lomVars' # lomVars)
       => /\ lom_counters'.skipped = lom_counters.skipped + 1
          /\ lom_idx' = lom_idx + 1 /\ lom_pc' = "law"
  /\ \A i \in PugIds :
       /\ pug_files[i] # 0 =>
            /\ pug_files'[i] = pug_files[i]
            /\ i \in pug_printed' => i \in pug_printed
       /\ (pug_task[i] = "opened" /\ pug_files[i] # 0 /\ pug_task'[i] # "opened")
            => pug_status'[i] = "Skipped" /\ pug_task'[i] = "ret_data"
  /\ \A i \in EmIds :
       /\ em_files[i] # 0 =>
            /\ em_files'[i] = em_files[i]
            /\ i \in em_requested' => i \in em_requested
       /\ (em_task[i] = "queued" /\ em_files[i] # 0 /\ em_task'[i] # "queued")
            => em_task'[i] = "ret_skip"

C3_ExistingKept == [][C3_ExistingKeptStep]_vars

\* a second run of the Puglia script ended with every law skipped and every
\* file as the first run wrote it
C3_Witness ==
  /\ pug_runs = 2 /\ pug_pc = "done"
  /\ \A i \in PugIds : pug_status[i] = "Skipped" /\ pug_files[i] = 1
  /\ pug_printed = {}

\* C3 as claimed: a second run changes no stored file
C3_SecondRunChangesNothing ==
  [][/\ lom_runs >= 2 => lom_files' = lom_files
     /\ pug_runs >= 2 => pug_files' = pug_files
     /\ em_runs >= 2 => em_files' = em_files]_vars

(***************************************************************************)
(* C4  Spreadsheet flush.  Basilicata writes the whole file from the       *)
(* complete data_list at every flush.  Calabria writes the rows the file   *)
(* already holds followed by the records of the year.  Friuli-Venezia      *)
(* Giulia save_metadata adds the one new row below the rows of an existing *)
(* file, or leaves the file with that row alone.                           *)
(***************************************************************************)
C4_FlushStep ==
  /\ bas_excel' # bas_excel => bas_excel' = bas_data_list'
  /\ cal_excel' # cal_excel => cal_excel' = cal_excel \o cal_year_records
  /\ fri_excel' # fri_excel =>
       /\ fri_given' # <<>>
       /\ LET row == fri_given'[Len(fri_given')]
          IN  fri_excel' \in {Append(fri_excel, row), <<row>>}

C4_Flush == [][C4_FlushStep]_vars

\* a second run of the Friuli script added a row below the rows of the first
C4_Witness ==
  /\ fri_runs = 2
  /\ fri_given # <<>>
  /\ Len(fri_excel) > Len(fri_given)
  /\ fri_excel[Len(fri_excel)] = fri_given[Len(fri_given)]

\* C4 as claimed: after any flush the file holds exactly the records
\* accumulated in memory
C4_FlushIsWholeList ==
  [][/\ bas_excel' # bas_excel => bas_excel' = bas_data_list'
     /\ cal_excel' # cal_excel => cal_excel' = cal_year_records
     /\ fri_excel' # fri_excel => fri_excel' = fri_given']_vars

(***************************************************************************)
(* C7  Basilicata listing traversal, as claimed: current_page never        *)
(* exceeds the number of pages of the listing.                             *)
(***************************************************************************)
C7_CurrentPageWithinListing == bas_current_page <= BasPages

(***************************************************************************)
(* C9  Basilicata row retry, as claimed: every attempt on a row of listing *)
(* page p reads the row from page p.                                       *)
(***************************************************************************)
C9_ReadsOwnPage ==
  (bas_pc = "row" /\ bas_current_page <= BasPages /\ bas_read # 0)
    => bas_read = bas_current_page

(***************************************************************************)
(* C5  Failure handling, as claimed for Lazio: whatever fails on one law,  *)
(* main ends only after every law of the collected listing was processed   *)
(* (a run whose listing scan itself failed is left aside).                 *)
(***************************************************************************)
C5_EveryLawProcessed ==
  (laz_pc = "done" /\ laz_critical # "scan") => laz_index > Len(laz_urls)

(***************************************************************************)
(* C6  Bounded fan-out: at most MAX_PARALLEL_TABS law pages are open in    *)
(* Tuscany and Liguria and at most MAX_WORKERS in Valle d'Aosta; a law's   *)
(* page is open only while its task is inside the semaphore, having        *)
(* entered it and not yet reached the close of its finally block, whatever *)
(* path the task took; no more tasks are inside the semaphore than it has  *)
(* slots.                                                                  *)
(***************************************************************************)
ArtInside == {u \in ArtIds : art_task[u] \in {"holding", "open", "finally", "closed"}}

AoInside == {l \in AoIds : ao_task[l] \in {"holding", "open", "finally", "closed"}}

C6_BoundedFanOut ==
  /\ Cardinality(art_pages) <= Art_MAX_PARALLEL_TABS
  /\ Cardinality(ao_pages) <= Ao_MAX_WORKERS
  /\ \A u \in art_pages : art_task[u] \in {"open", "finally"}
  /\ \A l \in ao_pages : ao_task[l] \in {"open", "finally"}
  /\ Cardinality(ArtInside) <= Art_MAX_PARALLEL_TABS
  /\ Cardinality(AoInside) <= Ao_MAX_WORKERS

\* every slot is taken by an open page, a task waits at the semaphore
C6_Witness ==
  /\ Cardinality(art_pages) = Art_MAX_PARALLEL_TABS
  /\ \E u \in ArtIds : art_task[u] = "waiting"

(***************************************************************************)
(* C10  Tuscany and Liguria, as claimed: the file recorded for a law that  *)
(* was downloaded in this run still holds that law's PDF, whatever was     *)
(* downloaded after it.                                                    *)
(***************************************************************************)
C10_OwnContentKept ==
  \A i \in 1 .. Len(art_results) :
    art_files[art_results[i][2]] = art_results[i][1]

(***************************************************************************)
(* C11  Valle d'Aosta abrogation gate, as claimed: once the year's         *)
(* spreadsheet is written it has no row for a law whose page was detected  *)
(* as abrogated in the run, also when the run began from the spreadsheet   *)
(* of an earlier run.                                                      *)
(***************************************************************************)
C11_NoRowForAbrogated ==
  ao_pc \in {"years", "done"} =>
    \A l \in ao_abrogated :
      \A i \in 1 .. Len(ao_excel) : ao_excel[i][1] # l

(***************************************************************************)
(* C12  Thread-pool workers, as claimed: when a worker call has returned,  *)
(* every browser the call started has been quit.                           *)
(***************************************************************************)
C12_DriversQuitOnReturn ==
  \A c \in WkIds :
    wk_pc[c] = "returned" =>
      \A i \in 1 .. Len(wk_drivers[c]) : wk_drivers[c][i] = "quit"

(***************************************************************************)
(* C13  File names.  Every stored name begins with the script's region     *)
(* prefix.  Valle d'Aosta and Lazio name the file prefix, number, date,    *)
(* pdf when the page gives both the number and the date (and, for Lazio,   *)
(* the PDF could be written); Valle d'Aosta names it by the id of the URL  *)
(* when the date is unknown; Lazio puts ID and the id of the URL for a     *)
(* missing number, unknown_date for a missing date, and the extension html *)
(* when the PDF could not be written.  Trentino-Alto Adige always adds the *)
(* type of the PDF link as a fourth part.                                  *)
(***************************************************************************)
NmPrefix ==
  CASE nm_script = "Trentino" -> <<"TrentinoAA", 0>>
    [] nm_script = "Aosta" -> <<"ValleAosta", 0>>
    [] OTHER -> <<"Lazio", 0>>

\* the date part of a name that belongs to a recorded date
NmDatePart(recorded) ==
  CASE recorded[1] = "dd/mm/yyyy" -> <<"yyyy-mm-dd", recorded[2]>>
    [] recorded[1] = "01/01/yyyy" -> <<"yyyy-01-01", recorded[2]>>
    [] recorded[1] = "d month yyyy" /\ nm_script = "Aosta" ->
         <<"yyyy-mm-dd", recorded[2]>>
    [] recorded[1] = "d month yyyy" -> recorded
    [] OTHER -> <<"none", 0>>

C14_AutoStopStep ==
  /\ (cal_pc = "scan" /\ cal_law_num' # cal_law_num =>
        /\ cal_consecutive_misses < Cal_MAX_CONSECUTIVE_MISSES
        /\ cal_law_num' = cal_law_num + 1
        /\ DOMAIN cal_futures' = DOMAIN cal_futures \cup {cal_law_num}
        /\ DOMAIN cal_futures' \subseteq 1 .. cal_law_num)
  /\ (cal_pc = "scan" /\ cal_pc' = "drain" =>
        cal_consecutive_misses = Cal_MAX_CONSECUTIVE_MISSES)
  /\ (cal_pc = "consume" /\ cal_pc' = "scan" =>
        \E n \in DOMAIN cal_futures :
          /\ DOMAIN cal_futures' = DOMAIN cal_futures \ {n}
          /\ IF cal_futures[n] = "found"
               THEN /\ cal_consecutive_misses' = 0
                    /\ cal_year_records' = Append(cal_year_records, <<cal_year, n>>)
               ELSE /\ cal_consecutive_misses' = cal_consecutive_misses + 1
                    /\ cal_year_records' = cal_year_records)
  /\ (cal_pc' = "save_progress" =>
        \A key \in cal_done_keys' :
          key[1] = cal_year' => key \in SeqToSet(cal_year_records'))

C14_AutoStop == [][C14_AutoStopStep]_vars

\* the scan has stopped and a fetch that was in flight found a PDF
C14_Witness ==
  /\ cal_pc = "drain"
  /\ cal_consecutive_misses = Cal_MAX_CONSECUTIVE_MISSES
  /\ \E n \in DOMAIN cal_futures : cal_futures[n] = "found"

(***************************************************************************)
(* C15  Calabria, as claimed: when a year's scan has stopped and every     *)
(* fetch was consumed, there are MAX_CONSECUTIVE_MISSES law numbers in a   *)
(* row, all submitted, none of which was found.                            *)
(***************************************************************************)
C15_StopsOnConsecutiveNumbers ==
  cal_pc = "save_progress" =>
    \E n \in 1 .. cal_law_num :
      \A k \in n .. n + Cal_MAX_CONSECUTIVE_MISSES - 1 :
        /\ k < cal_law_num
        /\ <<cal_year, k>> \notin SeqToSet(cal_year_records)

(***************************************************************************)
(* C20  Calabria, as claimed: whatever interruptions and restarts there    *)
(* were, no (year, law number) has two rows in the spreadsheet.            *)
(***************************************************************************)
C20_AtMostOneRow ==
  \A i, j \in 1 .. Len(cal_excel) : cal_excel[i] = cal_excel[j] => i = j

(***************************************************************************)
(* C17  Campania, as claimed: when a run has completed, whatever           *)
(* interruptions came before it, every law id listed in the state file     *)
(* has a row in the spreadsheet.                                           *)
(***************************************************************************)
C17_DoneIdsHaveRows ==
  camp_pc = "done" => \A i \in camp_file_ids : i \in SeqToSet(camp_excel)

(***************************************************************************)
(* C16  Marche download queue, as claimed: no worker thread ends before    *)
(* stop_signal is set or while the queue still holds a law.                *)
(***************************************************************************)
C16_NoWorkerEndsEarly ==
  \A w \in MarWorkers :
    MarEnded(w) => (mar_stop_signal /\ mar_queue = <<>>)

\* the conclusion of C16: main terminates
C16_MainTerminates == <>(mar_pc = "done")

\* the part of C16 that holds: a law is taken at most once, and task_done is
\* called for it at most once and only by the worker that took it
C16_TakenAndAckedOnce ==
  \A k \in MarLawIds :
    /\ mar_taken[k] <= 1
    /\ mar_acked[k] <= mar_taken[k]
    /\ mar_unfinished = Cardinality({j \in MarLawIds : j <= mar_put /\ mar_acked[j] = 0})

(***************************************************************************)
(* C18  Campania, as claimed: when every process_law call has returned     *)
(* and no save_state failed to open the file, the state file is a          *)
(* complete JSON document that lists every law id whose PDF was            *)
(* downloaded in the run.                                                  *)
(***************************************************************************)
C18_StateFileComplete ==
  (/\ CsAllReturned
   /\ cs_pdfs # {}
   /\ \A i \in CsIds : cs_task[i] # "save_failed")
    => /\ cs_file_exists
       /\ CsIsJson(cs_file)
       /\ cs_pdfs \subseteq CsLoadIds(cs_file)

(***************************************************************************)
(* C19  Molise, as claimed: when a run that listed every law has           *)
(* completed and its last write of the spreadsheet succeeded, whatever     *)
(* interruptions came before it, every PDF in the output directory has     *)
(* exactly one row in the spreadsheet.                                     *)
(***************************************************************************)
C19_SavedPdfHasOneRow ==
  (mol_pc = "done" /\ mol_excel = mol_df /\ Len(mol_law_queue) = MolLaws) =>
    \A f \in mol_files :
      Cardinality({i \in 1 .. Len(mol_excel) : mol_excel[i] = f}) = 1

\* the part of C19 that holds: no file is saved by page.pdf twice, and no
\* filename has two rows
C19_NothingTwice ==
  \A f \in MolFiles :
    /\ mol_rendered[f] <= 1
    /\ Cardinality({i \in 1 .. Len(mol_excel) : mol_excel[i] = f}) <= 1

(***************************************************************************)
(* C21  Marche, as claimed: no target path is written by more than one     *)
(* worker in a run.                                                        *)
(***************************************************************************)
C21_OneWriterPerPath ==
  \A p \in 1 .. MarPaths : Cardinality(mar_writers[p]) <= 1

(***************************************************************************)
(* C22  Marche statistics, as claimed: when main has finished after        *)
(* starting its workers, downloaded + skipped + failed equals the number   *)
(* of laws that were put on the download queue.                            *)
(***************************************************************************)
C22_CountersAddUp ==
  (mar_pc = "done" /\ mar_started = Mar_WORKERS) =>
    mar_stats.downloaded + mar_stats.skipped + mar_stats.failed = mar_put

(***************************************************************************)
(* C23  Piemonte process_law_worker: at most MAX_RETRIES attempts are      *)
(* made; no attempt follows one that saved a PDF larger than 2000 bytes;   *)
(* a record is returned exactly when the last attempt saved such a PDF;    *)
(* an attempt that finds the law abrogated saves no PDF, is the last       *)
(* attempt, and the call returns (None, "Skipped (Abrogated)").            *)
(***************************************************************************)
C23_Worker ==
  /\ pie_attempt <= Pie_MAX_RETRIES
  /\ Len(pie_log) = pie_attempt
  /\ \A k \in 1 .. Len(pie_log) :
       /\ pie_log[k].size > Pie_VALID_SIZE => k = Len(pie_log)
       /\ pie_log[k].abrogated =>
            /\ k = Len(pie_log)
            /\ pie_log[k].size = 0
            /\ pie_res = "None"
            /\ pie_status = "Skipped (Abrogated)"
            /\ pie_pc \in {"finally", "returned"}
  /\ pie_res = "record" =>
       /\ pie_attempt >= 1
       /\ pie_log[pie_attempt].size > Pie_VALID_SIZE
       /\ pie_status = "Downloaded"
  /\ pie_pc = "returned" =>
       /\ pie_driver # "live"
       /\ (pie_res = "record") =
            (pie_attempt >= 1 /\ pie_log[pie_attempt].size > Pie_VALID_SIZE)
       /\ (pie_res = "None" /\ pie_status # "Skipped (Abrogated)")
            => pie_attempt = Pie_MAX_RETRIES

\* the third attempt is the first to save a PDF that is large enough; the
\* first one saved a PDF of exactly 2000 bytes
C23_Witness ==
  /\ pie_pc = "returned" /\ pie_res = "record" /\ pie_attempt = Pie_MAX_RETRIES
  /\ pie_log[1].size = Pie_VALID_SIZE
  /\ pie_log[2].size = 0

\* a law found abrogated at the second attempt
C23_WitnessAbrogated ==
  /\ pie_pc = "returned" /\ pie_status = "Skipped (Abrogated)"
  /\ pie_attempt = 2 /\ pie_log[1].size = Pie_VALID_SIZE

(***************************************************************************)
(* C25  Veneto loop prevention: within one year no listing URL is          *)
(* processed twice and every processed URL is in visited_urls, so a year   *)
(* processes at most as many pages as there are listing URLs; the page     *)
(* loop ends for one of the reasons of the code; and main ends.            *)
(***************************************************************************)
C25_NoPageTwice ==
  /\ \A a, b \in 1 .. Len(ven_processed) :
       ven_processed[a] = ven_processed[b] => a = b
  /\ SeqToSet(ven_processed) \subseteq ven_visited_urls
  /\ Len(ven_processed) <= VenUrls
  /\ ven_pc \in {"links", "back", "paginate"} =>
       /\ ven_current_url \in ven_visited_urls
       /\ ven_pc = "links" => ven_current_url \notin SeqToSet(ven_processed)
  /\ ven_exit \in {"none", "current visited", "next visited", "no laws",
                   "no Successiva", "exception"}
  /\ ven_exit = "current visited" => ven_current_url \in ven_visited_urls

C25_LoopPrevention ==
  /\ []C25_NoPageTwice
  /\ <>(ven_pc \in {"done", "crashed"})

\* in the last year the loop was ended by the test at its top: two pages
\* were processed and the request for the third landed on a visited URL
C25_Witness ==
  /\ ven_pc = "year" /\ ven_year = VenYears + 1
  /\ ven_exit = "current visited"
  /\ Len(ven_processed) = 2

(***************************************************************************)
(* C24  Emilia-Romagna, as claimed: when main has finished, every          *)
(* download that was submitted has exactly one row in the spreadsheet,     *)
(* and its Status is the outcome download_file returned.                   *)
(***************************************************************************)
C24_OneRowPerDownload ==
  em_pc = "done" =>
    \A i \in EmIds :
      em_task[i] # "none" =>
        /\ Cardinality({k \in 1 .. Len(em_excel) : em_excel[k][1] = i}) = 1
        /\ \A k \in 1 .. Len(em_excel) :
             em_excel[k][1] = i => em_excel[k][2] = EmStatus(em_task[i])

====
